---- MODULE Spec2Model ----
(***************************************************************************)
(* A model of the document question-answering backend:                     *)
(*   - utils/chunking.py       the sliding-window chunker and the          *)
(*     paragraph chunker                                                   *)
(*   - services/search_service.py   the web search retry loop              *)
(*   - api/routes/documents.py, api/routes/chat.py, services/rag_service.py *)
(*     services/embedding_service.py, services/llm_service.py,             *)
(*     services/simple_fallback.py   the upload, delete and question       *)
(*     handlers over the relational store, the vector store and the model  *)
(* Offsets into texts are the 0-based offsets of the Python code; the       *)
(* character at Python offset i of a text t is t[i + 1].                    *)
(***************************************************************************)
EXTENDS Integers, Sequences, FiniteSets, TLC

\* ------------------------------------------------------------------ bounds
MaxTextLen == 5
MaxChunkSize == 4
MaxNegOverlap == 1
MaxRetries == 3
MaxDocs == 1
MaxChunks == 2
MaxSessions == 1
MaxMessages == 2
MaxParaTextLen == 7
MaxParaSize == 5
MaxStored == 12

\* --------------------------------------------------------------- variables
VARIABLES
    \* chunk_text (utils/chunking.py)
    text, chunk_size, overlap, start, chunks, chunk_index, iters, cpc,
    \* chunk_by_paragraphs (utils/chunking.py); it shares text, chunks,
    \* chunk_index and cpc with chunk_text
    max_chunk_size, paragraphs, para_i, current_chunk, start_char,
    \* SearchService.search (services/search_service.py)
    s_retries, s_attempt, s_pc, s_log, s_sleeps, s_result,
    \* the relational store (models/database.py)
    documents, chunk_rows, next_doc, sessions, messages,
    \* the vector store behind EmbeddingService: collections and their records
    vs_created, vs_records,
    \* the request that finished last: its response and the calls it made
    last,
    \* requests in flight (the interleaved specification)
    u_pc, u_chunks, d_pc, d_req

paraVars == <<max_chunk_size, paragraphs, para_i, current_chunk, start_char>>
chunkVars == <<text, chunk_size, overlap, start, chunks, chunk_index, iters, cpc, paraVars>>
searchVars == <<s_retries, s_attempt, s_pc, s_log, s_sleeps, s_result>>
storeVars == <<documents, chunk_rows, next_doc, sessions, messages, vs_created, vs_records>>
flightVars == <<u_pc, u_chunks, d_pc, d_req>>
svcVars == <<storeVars, last, flightVars>>
vars == <<chunkVars, searchVars, svcVars>>

\* the locals of chunk_by_paragraphs outside a call of it
ParaLocalsIdle ==
    /\ max_chunk_size = 1
    /\ paragraphs = <<>>
    /\ para_i = 0
    /\ current_chunk = <<>>
    /\ start_char = 0

\* no chunk_text or chunk_by_paragraphs call in progress
ChunkIdle ==
    /\ ParaLocalsIdle
    /\ text = <<>>
    /\ chunk_size = 1
    /\ overlap = 0
    /\ start = 0
    /\ chunks = <<>>
    /\ chunk_index = 0
    /\ iters = 0
    /\ cpc = "idle"

\* no search call in progress
SearchIdle ==
    /\ s_retries = 0
    /\ s_attempt = 0
    /\ s_pc = "idle"
    /\ s_log = <<>>
    /\ s_sleeps = <<>>
    /\ s_result = <<>>

\* ------------------------------------------------- identifiers and stores
DocIds == 1..MaxDocs

\* A document identifier as the text a request carries: the canonical form
\* str(uuid) gives (lower case, hyphenated), another form that uuid.UUID parses
\* to the same UUID (upper case, no hyphens, braces), or text that is no UUID.
IdForms == {"canon", "upper"}
IdStr(d, f) == [doc |-> d, form |-> f]
BadIdStr == [doc |-> 0, form |-> "bad"]
ValidIdStrs == {IdStr(d, f) : d \in DocIds, f \in IdForms}
RequestIds == ValidIdStrs \cup {BadIdStr}
NoId == [doc |-> 0, form |-> "none"]

\* uuid.UUID(s): the UUID, or 0 for ValueError
UUIDParse(s) == IF s.form \in IdForms THEN s.doc ELSE 0
\* str(uuid)
UUIDStr(d) == IdStr(d, "canon")
\* f"documents_{document_id}"
CollectionName(s) == <<"documents_", s.doc, s.form>>
CollNames == {CollectionName(s) : s \in ValidIdStrs}
NoColl == <<>>

\* the chunk lists extraction and chunking can hand to the upload: indices
\* 0..n-1 in order; the contents alternate between a long text and a short one
ContentLen(k) == IF k % 2 = 0 THEN 250 ELSE 150
Content(d, k) == [of |-> d, part |-> k, len |-> ContentLen(k)]
ChunkLists(d) ==
    {[k \in 1..n |-> [chunk_index |-> k - 1, content |-> Content(d, k - 1)]] :
        n \in 0..MaxChunks}

\* one embedding record: ids = f"{document_id}_{chunk['chunk_index']}",
\* metadatas = {"document_id": str(document_id), "chunk_index": ...}
EmbeddingRecord(idstr, chunk) ==
    [id |-> <<idstr, chunk.chunk_index>>, document_id |-> idstr,
     chunk_index |-> chunk.chunk_index, content |-> chunk.content]
EmbeddingRecords(idstr, chs) == {EmbeddingRecord(idstr, chs[k]) : k \in 1..Len(chs)}

NoRow == [status |-> "none", chunks_count |-> 0]
HasRow(d) == documents[d].status # "none"

NoCalls ==
    [probe |-> 0, vec_query |-> 0, vec_get |-> 0, db_chunks |-> 0,
     complete |-> 0, chat |-> 0, search |-> 0, requests |-> 0]

NoRetrieval == [raised |-> FALSE, failure |-> "none", chunks |-> <<>>]

\* op: the handler; code: the HTTP status; doc: the document the request is
\* about; coll, filt: the collection name and the document_id metadata value it
\* addressed in the vector store; path, answer, sources, context, calls: what a
\* question did; docreq, use_internet, available: the request's document_id and
\* use_internet and what the availability probe answered; retrieval: what the
\* vector store gave; llm: how the model request ended; raw: the text of the
\* exception, str(e), that the response's detail carries ("none": no such text);
\* min_similarity: the threshold answer_question was called with; chunks, held:
\* the chunk list a direct add_document_chunks call was handed and the records
\* its collection held before the call; found: what search_and_extract and the
\* second search call gave on the general path
NoLast ==
    [op |-> "none", code |-> 0, detail |-> "none", doc |-> 0, coll |-> NoColl,
     filt |-> NoId, path |-> "none", question |-> <<>>, answer |-> "none",
     docreq |-> NoId, use_internet |-> FALSE, available |-> FALSE,
     retrieval |-> NoRetrieval, llm |-> "none", raw |-> "none",
     min_similarity |-> 0, chunks |-> <<>>, held |-> {},
     found |-> [context |-> <<>>, results |-> <<>>],
     sources |-> <<>>, context |-> <<>>, inject |-> "none", turns |-> <<>>,
     calls |-> NoCalls]

\* no request has run and none is in flight
SvcIdle ==
    /\ documents = [d \in DocIds |-> NoRow]
    /\ chunk_rows = [d \in DocIds |-> <<>>]
    /\ next_doc = 1
    /\ sessions = {}
    /\ messages = <<>>
    /\ vs_created = {}
    /\ vs_records = [c \in CollNames |-> {}]
    /\ last = NoLast
    /\ u_pc = [d \in DocIds |-> "idle"]
    /\ u_chunks = [d \in DocIds |-> <<>>]
    /\ d_pc = "idle"
    /\ d_req = NoId

\* ------------------------------------------------------------ small helpers
Max(a, b) == IF a >= b THEN a ELSE b
Min(a, b) == IF a <= b THEN a ELSE b

\* ================================================================ chunking
Alphabet == {"a", ".", " ", "\n"}
Whitespace == {" ", "\n"}

Texts == UNION {[1..n -> Alphabet] : n \in 0..MaxTextLen}

\* text[lo:hi] of Python, for 0 <= lo; hi is clamped to the length
Slice(t, lo, hi) ==
    LET h == Min(hi, Len(t))
    IN  IF lo >= h THEN <<>> ELSE [k \in 1..(h - lo) |-> t[lo + k]]

\* str.strip(): leading and trailing whitespace removed
Strip(t) ==
    LET nonws == {k \in 1..Len(t) : t[k] \notin Whitespace}
    IN  IF nonws = {} THEN <<>>
        ELSE LET lead == CHOOSE k \in nonws : \A j \in nonws : k <= j
                 trail == CHOOSE k \in nonws : \A j \in nonws : k >= j
             IN  [k \in 1..(trail - lead + 1) |-> t[lead + k - 1]]

\* str.rfind(sub, lo, hi): the highest offset p with lo <= p, p + len(sub) <= hi
\* and t[p:p+len(sub)] = sub; -1 when there is none
RFind(t, sub, lo, hi) ==
    LET h == Min(hi, Len(t))
        hits == {p \in lo..(h - Len(sub)) :
                    \A k \in 1..Len(sub) : t[p + k] = sub[k]}
    IN  IF hits = {} THEN -1
        ELSE CHOOSE p \in hits : \A q \in hits : p >= q

sentence_endings ==
    << <<".", " ">>, <<".", "\n">>, <<"!", " ">>, <<"!", "\n">>,
       <<"?", " ">>, <<"?", "\n">> >>

SearchBack == 200

\* the for loop over sentence_endings: the first ending KIND that occurs in the
\* search window decides (break), whatever the other kinds would give
RECURSIVE SentenceBreak(_, _, _, _)
SentenceBreak(t, s, e, i) ==
    IF i > Len(sentence_endings) THEN e
    ELSE LET search_start == Max(s, e - SearchBack)
             pos == RFind(t, sentence_endings[i], search_start, e)
         IN  IF pos # -1 THEN pos + Len(sentence_endings[i])
             ELSE SentenceBreak(t, s, e, i + 1)

\* the paragraph break is tried when best_break is still the raw end
BestBreak(t, s, e) ==
    LET search_start == Max(s, e - SearchBack)
        best_break == SentenceBreak(t, s, e, 1)
    IN  IF best_break = e
        THEN LET para_break == RFind(t, <<"\n", "\n">>, search_start, e)
             IN  IF para_break # -1 THEN para_break + 2 ELSE best_break
        ELSE best_break

\* the end of the window that starts at s
WindowEnd(t, s, size) ==
    LET e == s + size
    IN  IF e < Len(t) THEN BestBreak(t, s, e) ELSE e

\* the step without its start + 1 term; C1 fails for it
NextStartNoProgress(s, e, ov) == e - ov

\* start = max(start + 1, end - overlap)
\* resuming one position past the window's end; C13 fails for it
NextStartSkip(s, e, ov) == e + 1
NextStart(s, e, ov) == Max(s + 1, e - ov)

ChunkInit ==
    /\ SearchIdle
    /\ SvcIdle
    /\ ParaLocalsIdle
    /\ text \in Texts
    /\ chunk_size \in 1..MaxChunkSize
    /\ overlap \in (0 - MaxNegOverlap)..(chunk_size - 1)
    /\ start = 0
    /\ chunks = <<>>
    /\ chunk_index = 0
    /\ iters = 0
    /\ cpc = "entry"

\* if not text or len(text.strip()) == 0: return []
ChunkEmpty ==
    /\ cpc = "entry"
    /\ Strip(text) = <<>>
    /\ cpc' = "done"
    /\ UNCHANGED <<text, chunk_size, overlap, start, chunks, chunk_index, iters>>
    /\ UNCHANGED <<paraVars, searchVars, svcVars>>

ChunkEnter ==
    /\ cpc = "entry"
    /\ Strip(text) # <<>>
    /\ cpc' = "loop"
    /\ UNCHANGED <<text, chunk_size, overlap, start, chunks, chunk_index, iters>>
    /\ UNCHANGED <<paraVars, searchVars, svcVars>>

\* one iteration of `while start < len(text)`
ChunkStep ==
    /\ cpc = "loop"
    /\ start < Len(text)
    /\ LET e == WindowEnd(text, start, chunk_size)
           content == Strip(Slice(text, start, e))
       IN  /\ IF content # <<>>
              THEN /\ chunks' = Append(chunks,
                          [content |-> content, chunk_index |-> chunk_index,
                           start_char |-> start, end_char |-> e])
                   /\ chunk_index' = chunk_index + 1
              ELSE UNCHANGED <<chunks, chunk_index>>
           /\ start' = NextStart(start, e, overlap)
    /\ iters' = iters + 1
    /\ UNCHANGED <<text, chunk_size, overlap, cpc>>
    /\ UNCHANGED <<paraVars, searchVars, svcVars>>

\* the loop condition fails: return chunks
ChunkReturn ==
    /\ cpc = "loop"
    /\ start >= Len(text)
    /\ cpc' = "done"
    /\ UNCHANGED <<text, chunk_size, overlap, start, chunks, chunk_index, iters>>
    /\ UNCHANGED <<paraVars, searchVars, svcVars>>

ChunkNext == ChunkEmpty \/ ChunkEnter \/ ChunkStep \/ ChunkReturn

SpecChunk == ChunkInit /\ [][ChunkNext]_vars

\* ------------------------------------------------------ chunk_by_paragraphs
ParaAlphabet == {"a", "b", " ", "\n"}
ParaTexts == UNION {[1..n -> ParaAlphabet] : n \in 0..MaxParaTextLen}

\* where a match of \n\s*\n that starts at t[i] ends, 0 when there is none: the
\* pattern needs a newline at i and, \s* being greedy, takes the last newline
\* of the whitespace run that follows
MatchEnd(t, i) ==
    LET K == {k \in (i + 1)..Len(t) :
                 t[k] = "\n" /\ \A m \in (i + 1)..(k - 1) : t[m] \in Whitespace}
    IN  IF t[i] # "\n" \/ K = {} THEN 0
        ELSE CHOOSE k \in K : \A j \in K : k >= j

\* re.split scanning from t[i] with the current piece starting at t[prev]:
\* leftmost matches, none overlapping, the pieces between them
RECURSIVE ReSplit(_, _, _)
ReSplit(t, i, prev) ==
    IF i > Len(t) THEN <<SubSeq(t, prev, Len(t))>>
    ELSE LET k == MatchEnd(t, i)
         IN  IF k = 0 THEN ReSplit(t, i + 1, prev)
             ELSE <<SubSeq(t, prev, i - 1)>> \o ReSplit(t, k + 1, k + 1)

\* re.split(r'\n\s*\n', text)
Paragraphs(t) == ReSplit(t, 1, 1)

\* "\n\n"
BlankLine == <<"\n", "\n">>

\* the flush test without the two characters of the joining blank line; C19
\* fails for it
ExceedsWithoutJoin(cur, para, max) == cur # <<>> /\ Len(cur) + Len(para) > max
\* current_chunk and len(current_chunk) + len(para) + 2 > max_chunk_size
Exceeds(cur, para, max) == cur # <<>> /\ Len(cur) + Len(para) + 2 > max

\* chunk_index after a chunk was flushed, left as it was; C14 fails for it
SameIndex(i) == i
\* chunk_index += 1
NextIndex(i) == i + 1

\* the chunk record appended for current_chunk
ParaChunk(cur, idx, at) ==
    [content |-> Strip(cur), chunk_index |-> idx,
     start_char |-> at, end_char |-> at + Len(cur)]

ParaInit ==
    /\ SearchIdle
    /\ SvcIdle
    /\ text \in ParaTexts
    /\ max_chunk_size \in 1..MaxParaSize
    /\ paragraphs = <<>>
    /\ para_i = 0
    /\ current_chunk = <<>>
    /\ start_char = 0
    /\ chunks = <<>>
    /\ chunk_index = 0
    /\ chunk_size = 1
    /\ overlap = 0
    /\ start = 0
    /\ iters = 0
    /\ cpc = "para_entry"

\* if not text or len(text.strip()) == 0: return []
ParaEmpty ==
    /\ cpc = "para_entry"
    /\ Strip(text) = <<>>
    /\ cpc' = "para_done"
    /\ UNCHANGED <<text, chunks, chunk_index, paraVars>>
    /\ UNCHANGED <<chunk_size, overlap, start, iters, searchVars, svcVars>>

\* paragraphs = re.split(...), then the loop is entered
ParaSplit ==
    /\ cpc = "para_entry"
    /\ Strip(text) # <<>>
    /\ paragraphs' = Paragraphs(text)
    /\ para_i' = 1
    /\ cpc' = "para_loop"
    /\ UNCHANGED <<text, chunks, chunk_index, max_chunk_size, current_chunk, start_char>>
    /\ UNCHANGED <<chunk_size, overlap, start, iters, searchVars, svcVars>>

\* one iteration of `for para in paragraphs`
ParaStep ==
    /\ cpc = "para_loop"
    /\ para_i <= Len(paragraphs)
    /\ LET para == Strip(paragraphs[para_i])
       IN  IF para = <<>>
           THEN UNCHANGED <<chunks, chunk_index, current_chunk, start_char>>
           ELSE IF Exceeds(current_chunk, para, max_chunk_size)
           THEN /\ chunks' = Append(chunks,
                                    ParaChunk(current_chunk, chunk_index, start_char))
                /\ start_char' = start_char + Len(current_chunk)
                /\ current_chunk' = para
                /\ chunk_index' = NextIndex(chunk_index)
           ELSE /\ current_chunk' = IF current_chunk # <<>>
                                    THEN current_chunk \o BlankLine \o para
                                    ELSE para
                /\ UNCHANGED <<chunks, chunk_index, start_char>>
    /\ para_i' = para_i + 1
    /\ UNCHANGED <<text, cpc, max_chunk_size, paragraphs>>
    /\ UNCHANGED <<chunk_size, overlap, start, iters, searchVars, svcVars>>

\* the loop is over: the final chunk, return chunks
ParaReturn ==
    /\ cpc = "para_loop"
    /\ para_i > Len(paragraphs)
    /\ chunks' = IF current_chunk # <<>>
                 THEN Append(chunks, ParaChunk(current_chunk, chunk_index, start_char))
                 ELSE chunks
    /\ cpc' = "para_done"
    /\ UNCHANGED <<text, chunk_index, paraVars>>
    /\ UNCHANGED <<chunk_size, overlap, start, iters, searchVars, svcVars>>

ParaNext == ParaEmpty \/ ParaSplit \/ ParaStep \/ ParaReturn

SpecPara == ParaInit /\ [][ParaNext]_vars

\* either chunker, called once
SpecChunkers == (ChunkInit \/ ParaInit) /\ [][ChunkNext \/ ParaNext]_vars

\* ============================================================== web search
\* what the engine hands back for one attempt: a result list (possibly empty)
\* or an exception
R1 == [title |-> "t1", href |-> "u1", body |-> "b1"]
R2 == [title |-> "t2", href |-> "u2", body |-> "b2"]
EngineLists == {<<>>, <<R1>>, <<R1, R2>>, <<R2, R1>>}
EngineErrors == {"ratelimit", "ddg_error", "error"}
EngineOutcomes ==
    [kind : {"results"}, items : EngineLists, err : {"none"}]
      \cup [kind : {"raise"}, items : {<<>>}, err : EngineErrors]

\* results.append({"title": ..., "url": result.get("href"), "snippet": result.get("body")})
FormatResults(items) ==
    [k \in 1..Len(items) |->
        [title |-> items[k].title, url |-> items[k].href, snippet |-> items[k].body]]

\* a loop body that re-raises on the last attempt; C8 fails for it
AttemptOutcomeRaise(o, a, n) ==
    IF o.kind = "results"
    THEN IF o.items # <<>>
         THEN [do |-> "return", value |-> FormatResults(o.items), sleep |-> 0]
         ELSE [do |-> "continue", value |-> <<>>, sleep |-> 0]
    ELSE IF a < n - 1
         THEN [do |-> "continue", value |-> <<>>, sleep |-> 1]
         ELSE [do |-> "raise", value |-> <<>>, sleep |-> 0]

\* a loop body that waits 2 seconds after every rate-limit error, whatever the
\* attempt; C23 fails for it
AttemptOutcomeFlat(o, a, n) ==
    IF o.kind = "results"
    THEN IF o.items # <<>>
         THEN [do |-> "return", value |-> FormatResults(o.items), sleep |-> 0]
         ELSE [do |-> "continue", value |-> <<>>, sleep |-> 0]
    ELSE IF a < n - 1
         THEN [do |-> "continue", value |-> <<>>,
               sleep |-> IF o.err = "ratelimit" THEN 2 ELSE 1]
         ELSE [do |-> "return", value |-> <<>>, sleep |-> 0]

\* what one pass of the loop body does with the engine's outcome o on attempt a
\* (0-based) of n: return a value, go round again after a sleep, or raise
AttemptOutcome(o, a, n) ==
    IF o.kind = "results"
    THEN IF o.items # <<>>
         THEN [do |-> "return", value |-> FormatResults(o.items), sleep |-> 0]
         ELSE [do |-> "continue", value |-> <<>>, sleep |-> 0]
    ELSE IF o.err = "ratelimit"
         THEN IF a < n - 1
              THEN [do |-> "continue", value |-> <<>>, sleep |-> (a + 1) * 2]
              ELSE [do |-> "return", value |-> <<>>, sleep |-> 0]
         ELSE IF a < n - 1
              THEN [do |-> "continue", value |-> <<>>, sleep |-> 1]
              ELSE [do |-> "return", value |-> <<>>, sleep |-> 0]

SearchInit ==
    /\ ChunkIdle
    /\ SvcIdle
    /\ s_retries \in 0..MaxRetries
    /\ s_attempt = 0
    /\ s_pc = "loop"
    /\ s_log = <<>>
    /\ s_sleeps = <<>>
    /\ s_result = <<>>

\* one pass of `for attempt in range(retries)`
SearchAttempt ==
    /\ s_pc = "loop"
    /\ s_attempt < s_retries
    /\ \E o \in EngineOutcomes :
         LET r == AttemptOutcome(o, s_attempt, s_retries)
         IN  /\ s_log' = Append(s_log, o)
             /\ s_sleeps' = IF r.sleep > 0 THEN Append(s_sleeps, r.sleep) ELSE s_sleeps
             /\ IF r.do = "return"
                THEN /\ s_pc' = "done"
                     /\ s_result' = r.value
                     /\ UNCHANGED s_attempt
                ELSE IF r.do = "raise"
                THEN /\ s_pc' = "raised"
                     /\ UNCHANGED <<s_result, s_attempt>>
                ELSE /\ s_attempt' = s_attempt + 1
                     /\ UNCHANGED <<s_pc, s_result>>
    /\ UNCHANGED s_retries
    /\ UNCHANGED <<chunkVars, svcVars>>

\* the loop is exhausted: return []
SearchExhausted ==
    /\ s_pc = "loop"
    /\ s_attempt >= s_retries
    /\ s_pc' = "done"
    /\ s_result' = <<>>
    /\ UNCHANGED <<s_retries, s_attempt, s_log, s_sleeps>>
    /\ UNCHANGED <<chunkVars, svcVars>>

SearchNext == SearchAttempt \/ SearchExhausted

SpecSearch == SearchInit /\ [][SearchNext]_vars

\* ========================================================= upload and delete
InFlightNone == d_pc = "idle" /\ \A d \in DocIds : u_pc[d] = "idle"

\* EmbeddingService.add_document_chunks: what a call can do to the collection.
\* Nothing at all for an empty chunk list; otherwise the collection is created,
\* the embeddings are generated and every record is added, or one of these
\* raises, after which any part of the records may have been written.
AddChunksOutcomes(idstr, chs) ==
    IF chs = <<>>
    THEN {[ok |-> TRUE, created |-> FALSE, written |-> {}]}
    ELSE {[ok |-> TRUE, created |-> TRUE, written |-> EmbeddingRecords(idstr, chs)]}
           \cup {[ok |-> FALSE, created |-> FALSE, written |-> {}]}
           \cup {[ok |-> FALSE, created |-> TRUE, written |-> W] :
                    W \in SUBSET EmbeddingRecords(idstr, chs)}

\* a handler that marks every upload processed; C2 fails for it
StatusAfterSwallow(ok) == "processed"
\* the status the except handler or the success path commits
StatusAfter(ok) == IF ok THEN "processed" ELSE "failed"

UploadResp(code, d, coll, filt) ==
    [NoLast EXCEPT !.op = "upload", !.code = code, !.doc = d, !.coll = coll, !.filt = filt]

\* upload_document, start to end
UploadDocument ==
    /\ InFlightNone
    /\ \/ \* unsupported file type: 400, nothing stored
          /\ last' = UploadResp(400, 0, NoColl, NoId)
          /\ UNCHANGED storeVars
       \/ \* extract_text raises: the document row is committed as failed
          /\ next_doc <= MaxDocs
          /\ documents' = [documents EXCEPT ![next_doc] =
                               [status |-> StatusAfter(FALSE), chunks_count |-> 0]]
          /\ next_doc' = next_doc + 1
          /\ last' = UploadResp(500, next_doc, NoColl, NoId)
          /\ UNCHANGED <<chunk_rows, sessions, messages, vs_created, vs_records>>
       \/ \* text extracted and chunked, chunk rows added, the index written
          /\ next_doc <= MaxDocs
          /\ \E chs \in ChunkLists(next_doc) :
             \E o \in AddChunksOutcomes(UUIDStr(next_doc), chs) :
               LET coll == CollectionName(UUIDStr(next_doc))
               IN  /\ vs_created' = IF o.created THEN vs_created \cup {coll} ELSE vs_created
                   /\ vs_records' = [vs_records EXCEPT ![coll] = @ \cup o.written]
                   /\ chunk_rows' = [chunk_rows EXCEPT ![next_doc] = chs]
                   /\ documents' = [documents EXCEPT ![next_doc] =
                          [status |-> StatusAfter(o.ok),
                           chunks_count |-> IF o.ok THEN Len(chs) ELSE 0]]
                   /\ last' = UploadResp(IF o.ok THEN 200 ELSE 500, next_doc,
                                         IF chs = <<>> THEN NoColl ELSE coll,
                                         IF chs = <<>> THEN NoId ELSE UUIDStr(next_doc))
          /\ next_doc' = next_doc + 1
          /\ UNCHANGED <<sessions, messages>>
    /\ UNCHANGED flightVars
    /\ UNCHANGED <<chunkVars, searchVars>>

\* the collection delete_document addresses: f"documents_{document_id}" of the
\* request's text
DeleteCollection(s) == CollectionName(s)

\* EmbeddingService.delete_document(collection_name, document_id): the
\* collection is got or created and the records whose document_id metadata
\* matches are removed
VectorDelete(recs, coll, idstr) ==
    [recs EXCEPT ![coll] = {r \in @ : r.document_id # idstr}]

DeleteResp(code, d, coll, filt) ==
    [NoLast EXCEPT !.op = "delete", !.code = code, !.doc = d, !.coll = coll, !.filt = filt]

\* delete_document, start to end
DeleteDocument ==
    /\ InFlightNone
    /\ \E s \in RequestIds :
         LET d == UUIDParse(s)
             coll == DeleteCollection(s)
         IN  IF d = 0
             THEN /\ last' = DeleteResp(400, 0, NoColl, NoId)
                  /\ UNCHANGED storeVars
             ELSE IF ~HasRow(d)
             THEN /\ last' = DeleteResp(404, d, NoColl, NoId)
                  /\ UNCHANGED storeVars
             ELSE /\ \/ \* the vector store call succeeds
                        /\ vs_created' = vs_created \cup {coll}
                        /\ vs_records' = VectorDelete(vs_records, coll, UUIDStr(d))
                     \/ \* it raises: `except Exception: pass`
                        /\ UNCHANGED <<vs_created, vs_records>>
                  /\ documents' = [documents EXCEPT ![d] = NoRow]
                  /\ chunk_rows' = [chunk_rows EXCEPT ![d] = <<>>]
                  /\ last' = DeleteResp(200, d, coll, UUIDStr(d))
                  /\ UNCHANGED <<next_doc, sessions, messages>>
    /\ UNCHANGED flightVars
    /\ UNCHANGED <<chunkVars, searchVars>>

\* ====================================================== question answering
\* ------------------------------------------------------------ text matching
UpperCase == <<"A", "B", "C", "D", "E", "F", "G", "H", "I", "J", "K", "L", "M",
               "N", "O", "P", "Q", "R", "S", "T", "U", "V", "W", "X", "Y", "Z">>
LowerCase == <<"a", "b", "c", "d", "e", "f", "g", "h", "i", "j", "k", "l", "m",
               "n", "o", "p", "q", "r", "s", "t", "u", "v", "w", "x", "y", "z">>
LowerChar(c) ==
    IF \E i \in 1..Len(UpperCase) : UpperCase[i] = c
    THEN LowerCase[CHOOSE i \in 1..Len(UpperCase) : UpperCase[i] = c]
    ELSE c
\* str.lower()
Lower(t) == [k \in 1..Len(t) |-> LowerChar(t[k])]
\* sub in t
Contains(t, sub) ==
    \E p \in 0..(Len(t) - Len(sub)) : \A k \in 1..Len(sub) : t[p + k] = sub[k]
\* t.startswith(pre)
StartsWith(t, pre) ==
    Len(pre) <= Len(t) /\ \A k \in 1..Len(pre) : t[k] = pre[k]
\* any(keyword in t for keyword in table)
ContainsAny(t, table) == \E i \in 1..Len(table) : Contains(t, table[i])
\* seq[:n]
Take(seq, n) == SubSeq(seq, 1, Min(n, Len(seq)))

internet_keywords ==
    << <<"c", "u", "r", "r", "e", "n", "t">>,
       <<"l", "a", "t", "e", "s", "t">>,
       <<"r", "e", "c", "e", "n", "t">>,
       <<"t", "o", "d", "a", "y">>,
       <<"n", "o", "w">>,
       <<"2", "0", "2", "4">>,
       <<"2", "0", "2", "5">>,
       <<"n", "e", "w", "s">>,
       <<"w", "e", "a", "t", "h", "e", "r">>,
       <<"s", "t", "o", "c", "k">>,
       <<"p", "r", "i", "c", "e">>,
       <<"r", "a", "t", "e">>,
       <<"w", "h", "a", "t", " ", "h", "a", "p", "p", "e", "n", "e", "d">>,
       <<"w", "h", "a", "t", " ", "i", "s", " ", "t", "h", "e", " ", "c", "u", "r", "r", "e", "n", "t">>,
       <<"l", "a", "t", "e", "s", "t", " ", "n", "e", "w", "s">>,
       <<"r", "e", "c", "e", "n", "t", " ", "e", "v", "e", "n", "t", "s">>,
       <<"p", "r", "e", "s", "i", "d", "e", "n", "t">>,
       <<"p", "r", "i", "m", "e", " ", "m", "i", "n", "i", "s", "t", "e", "r">>,
       <<"l", "e", "a", "d", "e", "r">>,
       <<"c", "e", "o">>,
       <<"h", "e", "a", "d", " ", "o", "f">> >>

summarize_keywords ==
    << <<"s", "u", "m", "m", "a", "r", "i", "z", "e">>,
       <<"s", "u", "m", "m", "a", "r", "y">>,
       <<"s", "u", "m", "m", "a", "r", "i", "s", "e">>,
       <<"s", "u", "m", "m", "a", "r", "i", "e", "s">>,
       <<"w", "h", "a", "t", " ", "i", "s", " ", "t", "h", "i", "s", " ", "d", "o", "c", "u", "m", "e", "n", "t", " ", "a", "b", "o", "u", "t">>,
       <<"w", "h", "a", "t", " ", "d", "o", "e", "s", " ", "t", "h", "i", "s", " ", "d", "o", "c", "u", "m", "e", "n", "t", " ", "s", "a", "y">>,
       <<"o", "v", "e", "r", "v", "i", "e", "w">>,
       <<"b", "r", "i", "e", "f">>,
       <<"k", "e", "y", " ", "p", "o", "i", "n", "t", "s">>,
       <<"m", "a", "i", "n", " ", "p", "o", "i", "n", "t", "s">> >>

GREETINGS ==
    << [key |-> <<"h", "i">>, response |-> "greet_hi"],
       [key |-> <<"h", "e", "l", "l", "o">>, response |-> "greet_hello"],
       [key |-> <<"h", "e", "y">>, response |-> "greet_hey"],
       [key |-> <<"g", "o", "o", "d", " ", "m", "o", "r", "n", "i", "n", "g">>, response |-> "greet_morning"],
       [key |-> <<"g", "o", "o", "d", " ", "a", "f", "t", "e", "r", "n", "o", "o", "n">>, response |-> "greet_afternoon"],
       [key |-> <<"g", "o", "o", "d", " ", "e", "v", "e", "n", "i", "n", "g">>, response |-> "greet_evening"] >>

COMMON_RESPONSES ==
    << [key |-> <<"h", "o", "w", " ", "a", "r", "e", " ", "y", "o", "u">>, response |-> "resp_how_are_you"],
       [key |-> <<"w", "h", "a", "t", " ", "c", "a", "n", " ", "y", "o", "u", " ", "d", "o">>, response |-> "resp_what_can_you_do"],
       [key |-> <<"w", "h", "o", " ", "a", "r", "e", " ", "y", "o", "u">>, response |-> "resp_who_are_you"] >>

Q_hello == <<"h", "e", "l", "l", "o">>
Q_hi_how == <<"H", "i", ",", " ", "h", "o", "w", " ", "a", "r", "e", " ", "y", "o", "u">>
Q_who_ceo == <<"W", "h", "o", " ", "i", "s", " ", "t", "h", "e", " ", "c", "e", "o">>
Q_plain == <<"w", "h", "a", "t", " ", "i", "s", " ", "x">>
Q_sum == <<"s", "u", "m", "m", "a", "r", "i", "z", "e", " ", "t", "h", "i", "s">>
Q_who_are == <<" ", "w", "h", "o", " ", "a", "r", "e", " ", "y", "o", "u", " ">>
Q_news == <<"L", "a", "t", "e", "s", "t", " ", "N", "E", "W", "S">>
who_is == <<"w", "h", "o", " ", "i", "s">>
who_are == <<"w", "h", "o", " ", "a", "r", "e">>

Questions == {Q_hello, Q_hi_how, Q_who_ceo, Q_plain, Q_sum, Q_who_are, Q_news}

\* a test that looks for the keywords only; C24 fails for it
NeedsInternetSearchKeywords(q) ==
    ContainsAny(Strip(Lower(q)), internet_keywords)
\* _needs_internet_search(question)
NeedsInternetSearch(q) ==
    LET question_lower == Strip(Lower(q))
    IN  \/ StartsWith(question_lower, who_is)
        \/ StartsWith(question_lower, who_are)
        \/ ContainsAny(question_lower, internet_keywords)

\* is_summarize_request
IsSummarizeRequest(q) == ContainsAny(Strip(Lower(q)), summarize_keywords)

\* ------------------------------------------------------------ SimpleFallback
\* for key, response in table.items(): if key in question_lower: return response
RECURSIVE FirstMatch(_, _, _)
FirstMatch(table, question_lower, i) ==
    IF i > Len(table) THEN "none"
    ELSE IF Contains(question_lower, table[i].key) THEN table[i].response
    ELSE FirstMatch(table, question_lower, i + 1)

\* the two tables tried in the other order; C9 fails for it
GetFallbackCommonFirst(q) ==
    LET question_lower == Strip(Lower(q))
        common == FirstMatch(COMMON_RESPONSES, question_lower, 1)
    IN  IF common # "none" THEN common
        ELSE FirstMatch(GREETINGS, question_lower, 1)

\* SimpleFallback.get_fallback_response: "none" stands for None
GetFallbackResponse(q) ==
    LET question_lower == Strip(Lower(q))
        greeting == FirstMatch(GREETINGS, question_lower, 1)
    IN  IF greeting # "none" THEN greeting
        ELSE FirstMatch(COMMON_RESPONSES, question_lower, 1)

\* SimpleFallback.get_error_response
GetErrorResponse == "ollama_setup_instructions"

\* ---------------------------------------------------------------- LLMService
\* how the HTTP request to the model ends: a response, a connect error whose
\* text says the connection was refused, another connect error, another error
LlmOutcomes == {"ok", "refused", "connect_error", "error"}

\* a client that posts again after a failure; C10 fails for it
LlmRequestsWithRetry(outcome) == IF outcome = "ok" THEN 1 ELSE 2
\* self.client.post(...) is called once in generate_answer and once in chat
LlmRequests(outcome) == 1

\* LLMService.generate_answer / LLMService.chat (api is "generate" or "chat")
LlmCall(api, outcome) ==
    [raised |-> outcome # "ok",
     answer |-> IF outcome = "ok" THEN "llm_answer" ELSE "none",
     msg |-> CASE outcome = "ok" -> "none"
               [] outcome = "refused" -> "ollama_is_not_running"
               [] outcome = "connect_error" -> "failed_to_connect_to_ollama"
               [] OTHER -> IF api = "chat" THEN "failed_to_chat"
                           ELSE "failed_to_generate_answer",
     requests |-> LlmRequests(outcome)]

\* "Ollama is not running" in error_msg or "Connection refused" in error_msg
\* or "111" in error_msg
MentionsOllamaDown(msg) == msg = "ollama_is_not_running"

\* ------------------------------------------------------- EmbeddingService reads
\* cosine distances in tenths; similarity = 1 - distance, in tenths too
Distances == {2, 9, 12}
Similarity(distance) == 10 - distance

IsInjective(f) == \A i, j \in DOMAIN f : f[i] = f[j] => i = j

\* the records of a collection that pass where={"document_id": idstr}
Eligible(coll, idstr) == {r \in vs_records[coll] : r.document_id = idstr}

\* collection.query(n_results=n, where=...): the n nearest eligible records (all
\* of them when there are fewer), best match first, each with its distance
QueryMatches(coll, idstr, n) ==
    LET E == Eligible(coll, idstr)
        k == Min(n, Cardinality(E))
    IN  {m \in [1..k -> [rec : E, distance : Distances]] :
            /\ IsInjective([i \in 1..k |-> m[i].rec])
            /\ \A i \in 1..(k - 1) : m[i].distance <= m[i + 1].distance}

\* search_similar_chunks: the formatted matches
SimilarChunks(m) ==
    [i \in 1..Len(m) |->
        [chunk_id |-> m[i].rec.id, content |-> m[i].rec.content,
         chunk_index |-> m[i].rec.chunk_index, distance |-> m[i].distance]]

\* the records in descending chunk_index order; C12 fails for it
SortByIndexDesc(S) ==
    CHOOSE f \in [1..Cardinality(S) -> S] :
        /\ IsInjective(f)
        /\ \A i \in 1..(Cardinality(S) - 1) : f[i].chunk_index >= f[i + 1].chunk_index
\* the vector store, or the embedding model in front of it, fails: the
\* exception is logged and raised again
StoreUnavailable == [raised |-> TRUE, failure |-> "store_unavailable", chunks |-> <<>>]

\* a query that raises when no record is eligible; C18 fails for it
QueryOutcomesNoIndex(coll, idstr, n) ==
    IF Eligible(coll, idstr) = {}
    THEN {[raised |-> TRUE, failure |-> "no_index", chunks |-> <<>>]}
    ELSE {[raised |-> FALSE, failure |-> "none", chunks |-> SimilarChunks(m)] :
             m \in QueryMatches(coll, idstr, n)}
\* get_or_create_collection then collection.query on a working store: the
\* collection is created when it is missing, and the query answers with the
\* matches there are, none for a collection without eligible records
QueryOutcomes(coll, idstr, n) ==
    {[raised |-> FALSE, failure |-> "none", chunks |-> SimilarChunks(m)] :
        m \in QueryMatches(coll, idstr, n)}

\* search_similar_chunks: what a call can do
SearchSimilarChunks(coll, idstr, n) ==
    {StoreUnavailable} \cup QueryOutcomes(coll, idstr, n)

\* chunks.sort(key=chunk_index)
SortByIndex(S) ==
    CHOOSE f \in [1..Cardinality(S) -> S] :
        /\ IsInjective(f)
        /\ \A i \in 1..(Cardinality(S) - 1) : f[i].chunk_index <= f[i + 1].chunk_index

\* get_all_chunks(collection_name, document_id, limit): the store gives back at
\* most `limit` of the eligible records, the adapter sorts them by chunk_index
AllChunks(coll, idstr, limit) ==
    LET E == Eligible(coll, idstr)
        k == Min(limit, Cardinality(E))
    IN  {[i \in 1..k |->
            LET r == SortByIndex(S)[i]
            IN  [chunk_id |-> r.id, content |-> r.content,
                 chunk_index |-> r.chunk_index, distance |-> 0]] :
          S \in {T \in SUBSET E : Cardinality(T) = k}}

\* the database fallback of summarize_document: the chunk rows ordered by
\* chunk_index
DbChunks(idstr) ==
    LET rows == chunk_rows[UUIDParse(idstr)]
    IN  [i \in 1..Len(rows) |->
            [chunk_id |-> <<IdStr(UUIDParse(idstr), "row"), rows[i].chunk_index>>,
             content |-> rows[i].content,
             chunk_index |-> rows[i].chunk_index, distance |-> 0]]

\* ---------------------------------------------------------------- RAGService
TopK == 5
MinSimilarityDefault == 0
MaxSummaryChunks == 50
SummarySources == 10
DisplayChars == 200
HistoryLimit == 10
NumSources == 3

NotFoundAnswer == "could_not_find_relevant_information"
NothingToSummarize == "could_not_find_content_to_summarize"

\* chunk["content"][:200] + "..." if len(chunk["content"]) > 200 else chunk["content"]
Display(content) ==
    [of |-> content.of, part |-> content.part,
     shown |-> Min(content.len, DisplayChars),
     ellipsis |-> content.len > DisplayChars]

\* a context whose blocks are put in chunk_index order; C25 fails for it
BuildContextSorted(chs) ==
    LET sorted == SortByIndex({chs[i] : i \in 1..Len(chs)})
    IN  [i \in 1..Len(sorted) |->
            [section |-> sorted[i].chunk_index, content |-> sorted[i].content]]
\* _build_context: one "[Section <chunk_index>]\n<content>" block per chunk, in
\* the order given
BuildContext(chs) ==
    [i \in 1..Len(chs) |-> [section |-> chs[i].chunk_index, content |-> chs[i].content]]

\* no similarity filter; C6 fails for it
KeepAll(matches, min_similarity) == matches
\* a filter that drops a match whose similarity equals the threshold; C16
\* fails for it
FilterAbove(matches, min_similarity) ==
    SelectSeq(matches, LAMBDA c : Similarity(c.distance) > min_similarity)
\* the similarity filter of answer_question
FilterBySimilarity(matches, min_similarity) ==
    SelectSeq(matches, LAMBDA c : Similarity(c.distance) >= min_similarity)

FormatSources(chs) ==
    [i \in 1..Len(chs) |->
        [chunk_id |-> chs[i].chunk_id, content |-> Display(chs[i].content),
         similarity |-> Similarity(chs[i].distance), chunk_index |-> chs[i].chunk_index]]

RagResult(raised, msg, answer, sources, context, complete, requests) ==
    [raised |-> raised, msg |-> msg, answer |-> answer, sources |-> sources,
     context |-> context, complete |-> complete, requests |-> requests]

\* RAGService.answer_question after the similarity query: query is what
\* search_similar_chunks did (raised, or the matches), llm how the model request
\* would end
AnswerQuestion(query, min_similarity, llm) ==
    IF query.raised
    THEN RagResult(TRUE, "vector_store_error", "none", <<>>, <<>>, 0, 0)
    ELSE IF query.chunks = <<>>
    THEN RagResult(FALSE, "none", NotFoundAnswer, <<>>, <<>>, 0, 0)
    ELSE LET filtered_chunks == FilterBySimilarity(query.chunks, min_similarity)
         IN  IF filtered_chunks = <<>>
             THEN RagResult(FALSE, "none", NotFoundAnswer, <<>>, <<>>, 0, 0)
             ELSE LET context == BuildContext(filtered_chunks)
                      gen == LlmCall("generate", llm)
                  IN  IF gen.raised
                      THEN RagResult(TRUE, gen.msg, "none", <<>>, context, 1, gen.requests)
                      ELSE RagResult(FALSE, "none", gen.answer,
                                     FormatSources(filtered_chunks), context, 1,
                                     gen.requests)

\* RAGService.summarize_document: getall is what get_all_chunks did, rows the
\* database fallback's chunks
SummarizeDocument(getall, rows, llm) ==
    LET from_index == IF getall.raised THEN <<>> ELSE getall.chunks
        all_chunks == IF from_index = <<>> THEN rows ELSE from_index
    IN  IF all_chunks = <<>>
        THEN RagResult(FALSE, "none", NothingToSummarize, <<>>, <<>>, 0, 0)
        ELSE LET context == BuildContext(all_chunks)
                 gen == LlmCall("generate", llm)
             IN  IF gen.raised
                 THEN RagResult(TRUE, gen.msg, "none", <<>>, context, 1, gen.requests)
                 ELSE RagResult(FALSE, "none", gen.answer,
                                FormatSources(Take(all_chunks, SummarySources)),
                                context, 1, gen.requests)

\* ---------------------------------------------- answer_question on its own
\* RAGService.answer_question called directly, with any threshold: distances
\* and thresholds in tenths
RagDistances == {1, 5, 9, 12}
RagThresholds == {-5, 0, 5, 6}
MaxMatches == 3

\* what search_similar_chunks can hand back: up to MaxMatches chunks of one
\* document, nearest first, in any order of chunk_index
RagMatches ==
    UNION {{m \in [1..n -> [chunk_index : 0..(MaxMatches - 1), distance : RagDistances]] :
                /\ IsInjective([i \in 1..n |-> m[i].chunk_index])
                /\ \A i \in 1..(n - 1) : m[i].distance <= m[i + 1].distance} :
           n \in 0..MaxMatches}

RagChunks(m) ==
    [i \in 1..Len(m) |->
        [chunk_id |-> <<IdStr(1, "canon"), m[i].chunk_index>>,
         content |-> Content(1, m[i].chunk_index),
         chunk_index |-> m[i].chunk_index, distance |-> m[i].distance]]

\* a call is about to be made: its arguments and what the stores will answer
RagInit ==
    /\ ChunkIdle
    /\ SearchIdle
    /\ documents = [d \in DocIds |-> NoRow]
    /\ chunk_rows = [d \in DocIds |-> <<>>]
    /\ next_doc = 1
    /\ sessions = {}
    /\ messages = <<>>
    /\ vs_created = {}
    /\ vs_records = [c \in CollNames |-> {}]
    /\ u_pc = [d \in DocIds |-> "idle"]
    /\ u_chunks = [d \in DocIds |-> <<>>]
    /\ d_pc = "idle"
    /\ d_req = NoId
    /\ \E m \in RagMatches, min_similarity \in RagThresholds, llm \in LlmOutcomes :
         last = [NoLast EXCEPT !.op = "answer_question_call",
                    !.retrieval = [raised |-> FALSE, failure |-> "none",
                                   chunks |-> RagChunks(m)],
                    !.min_similarity = min_similarity, !.llm = llm]

\* answer_question runs from the similarity query to its return
RagAnswer ==
    /\ last.op = "answer_question_call"
    /\ LET r == AnswerQuestion(last.retrieval, last.min_similarity, last.llm)
       IN  last' = [last EXCEPT !.op = "answer_question",
                       !.code = IF r.raised THEN 500 ELSE 200,
                       !.raw = IF r.raised THEN r.msg ELSE "none",
                       !.answer = r.answer, !.sources = r.sources,
                       !.context = r.context,
                       !.calls = [NoCalls EXCEPT !.vec_query = 1,
                                     !.complete = r.complete,
                                     !.requests = r.requests]]
    /\ UNCHANGED <<chunkVars, searchVars, storeVars, flightVars>>

SpecRag == RagInit /\ [][RagAnswer]_vars

\* ------------------------------------------------------------- web search use
\* what SearchService.search hands its caller: [] or an engine list, formatted
SearchResults == {FormatResults(items) : items \in EngineLists}

\* search_and_extract after its search call: for each of the first num_sources
\* results the page text when extract_content_from_url gives some (page[i]),
\* else the snippet when there is one, else nothing
SearchAndExtract(results, page) ==
    LET top == Take(results, NumSources)
        entry(i) ==
            [n |-> i, src |-> top[i],
             kind |-> IF top[i].url # "" /\ page[i] THEN "page"
                      ELSE IF top[i].snippet # "" THEN "snippet"
                      ELSE "skip"]
    IN  SelectSeq([i \in 1..Len(top) |-> entry(i)], LAMBDA e : e.kind # "skip")

\* the "- title: snippet" lines of the snippets branch
SnippetLines(results) ==
    LET top == Take(results, NumSources)
    IN  [i \in 1..Len(top) |-> [n |-> i, src |-> top[i], kind |-> "line"]]

\* ------------------------------------------------------------- conversations
SessionIds == 1..MaxSessions
FreshSession == CHOOSE k \in SessionIds \ sessions : \A j \in SessionIds \ sessions : k <= j

Turn(role, content, inject) == [role |-> role, text |-> content, inject |-> inject]
SystemTurn == Turn("system", <<"helpful_assistant">>, "none")

\* a history read that leaves the newest turn first; C26 fails for it
ConversationHistoryNewestFirst(msgs, sid, limit) ==
    LET mine == SelectSeq(msgs, LAMBDA m : m.session = sid)
        recent == SubSeq(mine, Max(1, Len(mine) - limit + 1), Len(mine))
    IN  [i \in 1..Len(recent) |->
            Turn(recent[Len(recent) + 1 - i].role, recent[Len(recent) + 1 - i].text, "none")]
\* _get_conversation_history: the `limit` newest stored turns of the session,
\* oldest first
ConversationHistory(msgs, sid, limit) ==
    LET mine == SelectSeq(msgs, LAMBDA m : m.session = sid)
        recent == SubSeq(mine, Max(1, Len(mine) - limit + 1), Len(mine))
    IN  [i \in 1..Len(recent) |-> Turn(recent[i].role, recent[i].text, "none")]

ChatResult(code, detail, answer, sources, context, inject, turns, search, chat, requests) ==
    [code |-> code, detail |-> detail, answer |-> answer, sources |-> sources,
     context |-> context, inject |-> inject, turns |-> turns, search |-> search,
     chat |-> chat, requests |-> requests]

\* the search_context values search_and_extract can hand back
SearchContexts ==
    UNION {{SearchAndExtract(first, page) : page \in [1..Len(first) -> BOOLEAN]} :
              first \in SearchResults}

\* the `except Exception as e` of the general path; fallback_response is
\* get_fallback_response(request.question)
OnChatError(fallback_response, msg) ==
    IF fallback_response # "none"
    THEN [code |-> 200, detail |-> "none", answer |-> fallback_response]
    ELSE IF MentionsOllamaDown(msg)
    THEN [code |-> 200, detail |-> "none", answer |-> GetErrorResponse]
    ELSE [code |-> 503, detail |-> "ai_service_unavailable", answer |-> "none"]

\* the general path when the probe failed
OfflineAnswer(fallback_response) ==
    ChatResult(200, "none",
               IF fallback_response # "none" THEN fallback_response
               ELSE GetErrorResponse,
               <<>>, <<>>, "none", <<>>, 0, 0, 0)

\* the general path when the probe succeeded: history is the recent window,
\* search_context what search_and_extract gave, search_results what the second
\* search call gave, llm how the chat request ends
OnlineAnswer(q, needs_search, fallback_response, history, search_context, search_results, llm) ==
    LET inject == IF ~needs_search THEN "none"
                  ELSE IF search_context # <<>> /\ search_results # <<>> THEN "context"
                  ELSE IF search_results # <<>> THEN "snippets"
                  ELSE "unavailable"
        context == CASE inject = "context" -> search_context
                     [] inject = "snippets" -> SnippetLines(search_results)
                     [] OTHER -> <<>>
        sources == IF inject \in {"context", "snippets"} THEN search_results ELSE <<>>
        turns == <<SystemTurn>> \o history \o <<Turn("user", q, inject)>>
        reply == LlmCall("chat", llm)
        searches == IF needs_search THEN 2 ELSE 0
    IN  IF reply.raised
        THEN LET h == OnChatError(fallback_response, reply.msg)
             IN  ChatResult(h.code, h.detail, h.answer, <<>>, context, inject,
                            turns, searches, 1, reply.requests)
        ELSE ChatResult(200, "none", reply.answer, sources, context, inject,
                        turns, searches, 1, reply.requests)

\* --------------------------------------------------------------- ask_question
\* the request as ask_question sees it, and what check_connection answered
Request(q, docreq, use_internet, available) ==
    [question |-> q, document_id |-> docreq, use_internet |-> use_internet,
     available |-> available]

AskResp(code, detail, req, path) ==
    [NoLast EXCEPT !.op = "ask", !.code = code, !.detail = detail,
                   !.doc = UUIDParse(req.document_id), !.path = path,
                   !.question = req.question, !.docreq = req.document_id,
                   !.use_internet = req.use_internet, !.available = req.available]

AskDone(sess, msgs, created, resp) ==
    /\ sessions' = sess
    /\ messages' = msgs
    /\ vs_created' = created
    /\ last' = resp
    /\ UNCHANGED <<documents, chunk_rows, next_doc, vs_records>>

Stored(sid, role, content) == [session |-> sid, role |-> role, text |-> content]

\* the collection and the document_id filter the RAG service addresses for the
\* request's document_id text
RagCollection(docreq) == CollectionName(docreq)
RagFilter(docreq) == docreq

\* no status check; C3 fails for it
AlwaysQueryable(status) == TRUE
\* if document.status != "processed": raise HTTPException(400)
Queryable(status) == status = "processed"

\* the document-scoped path for a document that passed the status check
AskDocument(req, summarize, sid, sess, msgs) ==
    LET docreq == req.document_id
        coll == RagCollection(docreq)
        filt == RagFilter(docreq)
        base(path) == [AskResp(200, "none", req, path) EXCEPT !.coll = coll, !.filt = filt]
        finish(path, r, got, created, calls, llm) ==
            LET resp == [base(path) EXCEPT !.context = r.context, !.calls = calls,
                             !.retrieval = got,
                             !.llm = IF r.complete = 0 THEN "none" ELSE llm]
            IN  IF r.raised
                THEN AskDone(sess, msgs, created,
                             [resp EXCEPT !.code = 500,
                                  !.detail = "error_processing_question",
                                  !.raw = r.msg])
                ELSE AskDone(sess, Append(msgs, Stored(sid, "assistant", <<r.answer>>)),
                             created,
                             [resp EXCEPT !.answer = r.answer, !.sources = r.sources])
    IN  IF summarize
        THEN \E getall \in {StoreUnavailable} \cup
                           {[raised |-> FALSE, failure |-> "none", chunks |-> c] :
                                c \in AllChunks(coll, filt, MaxSummaryChunks)} :
             \E llm \in IF getall.chunks = <<>> /\ DbChunks(docreq) = <<>>
                        THEN {"ok"} ELSE LlmOutcomes :
               LET r == SummarizeDocument(getall, Take(DbChunks(docreq), MaxSummaryChunks), llm)
               IN  finish("summarize", r, getall,
                          IF getall.raised THEN vs_created ELSE vs_created \cup {coll},
                          [NoCalls EXCEPT !.probe = 1, !.vec_get = 1,
                             !.db_chunks = IF getall.chunks = <<>> THEN 1 ELSE 0,
                             !.complete = r.complete, !.requests = r.requests],
                          llm)
        ELSE \E query \in SearchSimilarChunks(coll, filt, TopK) :
             \E llm \in IF query.chunks = <<>> THEN {"ok"} ELSE LlmOutcomes :
               LET r == AnswerQuestion(query, MinSimilarityDefault, llm)
               IN  finish("document_answer", r, query,
                          IF query.raised THEN vs_created ELSE vs_created \cup {coll},
                          [NoCalls EXCEPT !.probe = 1, !.vec_query = 1,
                             !.complete = r.complete, !.requests = r.requests],
                          llm)

\* the general path
AskGeneral(req, needs_search, fallback_response, sid, sess, msgs) ==
    LET finish(path, r, llm, search_context, search_results) ==
            LET resp == [AskResp(r.code, r.detail, req, path) EXCEPT
                            !.found = [context |-> search_context,
                                       results |-> search_results],
                            !.answer = r.answer, !.sources = r.sources,
                            !.context = r.context, !.inject = r.inject,
                            !.turns = r.turns, !.llm = llm,
                            !.raw = IF r.code = 200 THEN "none"
                                    ELSE LlmCall("chat", llm).msg,
                            !.calls = [NoCalls EXCEPT !.probe = 1, !.search = r.search,
                                          !.chat = r.chat, !.requests = r.requests]]
            IN  IF r.code = 200
                THEN AskDone(sess, Append(msgs, Stored(sid, "assistant", <<r.answer>>)),
                             vs_created, resp)
                ELSE AskDone(sess, msgs, vs_created, resp)
    IN  IF ~req.available
        THEN finish("offline", OfflineAnswer(fallback_response), "none", <<>>, <<>>)
        ELSE LET history == ConversationHistory(msgs, sid, HistoryLimit)
             IN  IF needs_search
                 THEN \E search_context \in SearchContexts,
                         search_results \in SearchResults :
                      \E llm \in LlmOutcomes :
                        finish("chat_search",
                               OnlineAnswer(req.question, needs_search, fallback_response,
                                            history, search_context, search_results, llm),
                               llm, search_context, search_results)
                 ELSE \E llm \in LlmOutcomes :
                        finish("chat",
                               OnlineAnswer(req.question, needs_search, fallback_response,
                                            history, <<>>, <<>>, llm),
                               llm, <<>>, <<>>)

\* ask_question, start to end, while the turn store has room for its two turns
AskQuestionWithin(cap) ==
    /\ InFlightNone
    /\ Len(messages) + 2 <= cap
    /\ \E q \in Questions :
         LET internet_keyword == NeedsInternetSearch(q)
             summarize == IsSummarizeRequest(q)
             fallback_response == GetFallbackResponse(q)
         IN  \E docreq \in {NoId} \cup RequestIds, use_internet \in BOOLEAN,
                sreq \in {0} \cup SessionIds :
               /\ sreq = 0 => sessions # SessionIds
               /\ LET sid == IF sreq = 0 THEN FreshSession ELSE sreq
                      sess == sessions \cup {sid}
                      d == UUIDParse(docreq)
                      msgs == Append(messages, Stored(sid, "user", q))
                      unprobed == Request(q, docreq, use_internet, FALSE)
                  IN  IF docreq # NoId /\ d = 0
                      THEN \* uuid.UUID(request.document_id) raises while the user
                           \* turn is built
                           AskDone(sess, messages, vs_created,
                                   [AskResp(500, "error_processing_question", unprobed,
                                            "none")
                                      EXCEPT !.raw = "badly_formed_uuid_string"])
                      ELSE IF docreq # NoId /\ ~HasRow(d)
                      THEN \* the user turn's document_id references no document row
                           AskDone(sess, messages, vs_created,
                                   [AskResp(500, "error_processing_question", unprobed,
                                            "none")
                                      EXCEPT !.raw = "foreign_key_violation"])
                      ELSE \E available \in BOOLEAN :
                           LET req == Request(q, docreq, use_internet, available)
                           IN  IF docreq # NoId /\ ~use_internet
                               THEN IF ~Queryable(documents[d].status)
                                    THEN AskDone(sess, msgs, vs_created,
                                           [AskResp(400, "document_is_still_being_processed",
                                                    req, "rejected")
                                              EXCEPT !.calls = [NoCalls EXCEPT !.probe = 1]])
                                    ELSE AskDocument(req, summarize, sid, sess, msgs)
                               ELSE AskGeneral(req, internet_keyword \/ use_internet,
                                               fallback_response, sid, sess, msgs)
    /\ UNCHANGED flightVars
    /\ UNCHANGED <<chunkVars, searchVars>>

AskQuestion == AskQuestionWithin(MaxMessages)

Init ==
    /\ ChunkIdle
    /\ SearchIdle
    /\ SvcIdle

Next == UploadDocument \/ DeleteDocument \/ AskQuestion

Spec == Init /\ [][Next]_vars

\* ================================== upload and delete, one store call at a time
\* The same two handlers, cut at their calls into the relational store and the
\* vector store, so that a delete can run between the steps of an upload.

\* upload_document: the document row is committed with status "processing"
UploadBegin ==
    /\ next_doc <= MaxDocs
    /\ u_pc[next_doc] = "idle"
    /\ documents' = [documents EXCEPT ![next_doc] =
                         [status |-> "processing", chunks_count |-> 0]]
    /\ u_pc' = [u_pc EXCEPT ![next_doc] = "created"]
    /\ next_doc' = next_doc + 1
    /\ UNCHANGED <<chunk_rows, sessions, messages, vs_created, vs_records, last,
                   u_chunks, d_pc, d_req>>
    /\ UNCHANGED <<chunkVars, searchVars>>

\* extract_text and chunk_text; the chunk rows are added to the session, not yet
\* committed
UploadChunk(d) ==
    /\ u_pc[d] = "created"
    /\ \/ \E chs \in ChunkLists(d) :
            /\ u_chunks' = [u_chunks EXCEPT ![d] = chs]
            /\ u_pc' = [u_pc EXCEPT ![d] = "chunked"]
       \/ \* extract_text raises
          /\ u_pc' = [u_pc EXCEPT ![d] = "failing"]
          /\ UNCHANGED u_chunks
    /\ UNCHANGED <<storeVars, last, d_pc, d_req>>
    /\ UNCHANGED <<chunkVars, searchVars>>

\* embedding_service.add_document_chunks
UploadIndex(d) ==
    /\ u_pc[d] = "chunked"
    /\ \E o \in AddChunksOutcomes(UUIDStr(d), u_chunks[d]) :
         LET coll == CollectionName(UUIDStr(d))
         IN  /\ vs_created' = IF o.created THEN vs_created \cup {coll} ELSE vs_created
             /\ vs_records' = [vs_records EXCEPT ![coll] = @ \cup o.written]
             /\ u_pc' = [u_pc EXCEPT ![d] = IF o.ok THEN "indexed" ELSE "failing"]
    /\ UNCHANGED <<documents, chunk_rows, next_doc, sessions, messages, last,
                   u_chunks, d_pc, d_req>>
    /\ UNCHANGED <<chunkVars, searchVars>>

\* the db.commit() of the success path or of the except handler: the status and
\* the pending chunk rows are written; when the document row was deleted in the
\* meantime the commit itself raises and nothing is written
UploadCommit(d) ==
    /\ u_pc[d] \in {"indexed", "failing"}
    /\ LET ok == u_pc[d] = "indexed"
           chs == u_chunks[d]
       IN  IF HasRow(d)
           THEN /\ documents' = [documents EXCEPT ![d] =
                                     [status |-> StatusAfter(ok),
                                      chunks_count |-> IF ok THEN Len(chs) ELSE 0]]
                /\ chunk_rows' = [chunk_rows EXCEPT ![d] = chs]
                /\ last' = UploadResp(IF ok THEN 200 ELSE 500, d,
                                      IF chs = <<>> THEN NoColl
                                      ELSE CollectionName(UUIDStr(d)),
                                      IF chs = <<>> THEN NoId ELSE UUIDStr(d))
           ELSE /\ last' = UploadResp(500, d,
                                      IF chs = <<>> THEN NoColl
                                      ELSE CollectionName(UUIDStr(d)),
                                      IF chs = <<>> THEN NoId ELSE UUIDStr(d))
                /\ UNCHANGED <<documents, chunk_rows>>
    /\ u_pc' = [u_pc EXCEPT ![d] = "idle"]
    /\ u_chunks' = [u_chunks EXCEPT ![d] = <<>>]
    /\ UNCHANGED <<next_doc, sessions, messages, vs_created, vs_records, d_pc, d_req>>
    /\ UNCHANGED <<chunkVars, searchVars>>

\* delete_document: the identifier is parsed and the document row looked up
DeleteBegin ==
    /\ d_pc = "idle"
    /\ \E s \in RequestIds :
         LET d == UUIDParse(s)
         IN  IF d = 0
             THEN /\ last' = DeleteResp(400, 0, NoColl, NoId)
                  /\ UNCHANGED <<d_pc, d_req>>
             ELSE IF ~HasRow(d)
             THEN /\ last' = DeleteResp(404, d, NoColl, NoId)
                  /\ UNCHANGED <<d_pc, d_req>>
             ELSE /\ d_pc' = "found"
                  /\ d_req' = s
                  /\ UNCHANGED last
    /\ UNCHANGED <<storeVars, u_pc, u_chunks>>
    /\ UNCHANGED <<chunkVars, searchVars>>

\* embedding_service.delete_document inside `try: ... except Exception: pass`
DeleteVector ==
    /\ d_pc = "found"
    /\ \/ /\ vs_created' = vs_created \cup {DeleteCollection(d_req)}
          /\ vs_records' = VectorDelete(vs_records, DeleteCollection(d_req),
                                        UUIDStr(UUIDParse(d_req)))
       \/ UNCHANGED <<vs_created, vs_records>>
    /\ d_pc' = "vector_done"
    /\ UNCHANGED <<documents, chunk_rows, next_doc, sessions, messages, last,
                   u_pc, u_chunks, d_req>>
    /\ UNCHANGED <<chunkVars, searchVars>>

\* db.delete(document); db.commit(): the row goes and its chunk rows with it
DeleteCommit ==
    /\ d_pc = "vector_done"
    /\ LET d == UUIDParse(d_req)
       IN  /\ documents' = [documents EXCEPT ![d] = NoRow]
           /\ chunk_rows' = [chunk_rows EXCEPT ![d] = <<>>]
           /\ last' = DeleteResp(200, d, DeleteCollection(d_req), UUIDStr(d))
    /\ d_pc' = "idle"
    /\ d_req' = NoId
    /\ UNCHANGED <<next_doc, sessions, messages, vs_created, vs_records, u_pc, u_chunks>>
    /\ UNCHANGED <<chunkVars, searchVars>>

NextConc ==
    \/ UploadBegin
    \/ \E d \in DocIds : UploadChunk(d)
    \/ \E d \in DocIds : UploadIndex(d)
    \/ \E d \in DocIds : UploadCommit(d)
    \/ DeleteBegin
    \/ DeleteVector
    \/ DeleteCommit

SpecConc == Init /\ [][NextConc]_vars


\* =================================================================== claims
\* ------------------------------------------- a question in a conversation
\* the texts of the turns a session holds already
TurnNames == <<"m01", "m02", "m03", "m04", "m05", "m06", "m07", "m08", "m09", "m10",
               "m11", "m12">>

\* the turns of a session after earlier questions: user and assistant turns in
\* turn, oldest first; an odd number when the last question ended in an error
StoredTurns(n) ==
    [k \in 1..n |->
        Stored(1, IF k % 2 = 1 THEN "user" ELSE "assistant", <<TurnNames[k]>>)]

\* a session with up to MaxStored turns, no documents
ChatInit ==
    /\ ChunkIdle
    /\ SearchIdle
    /\ documents = [d \in DocIds |-> NoRow]
    /\ chunk_rows = [d \in DocIds |-> <<>>]
    /\ next_doc = 1
    /\ sessions = {1}
    /\ \E n \in 0..MaxStored : messages = StoredTurns(n)
    /\ vs_created = {}
    /\ vs_records = [c \in CollNames |-> {}]
    /\ last = NoLast
    /\ u_pc = [d \in DocIds |-> "idle"]
    /\ u_chunks = [d \in DocIds |-> <<>>]
    /\ d_pc = "idle"
    /\ d_req = NoId

\* the next question of the session, the only one followed here
ChatAsk ==
    /\ last.op = "none"
    /\ AskQuestionWithin(MaxStored + 2)

SpecChat == ChatInit /\ [][ChatAsk]_vars

\* ------------------------------------------ add_document_chunks on its own
\* an add that raises when the collection already holds one of the ids; C17
\* fails for it
CollectionAddStrict(existing, new) ==
    IF \E r \in new, x \in existing : x.id = r.id
    THEN [raised |-> TRUE, records |-> existing]
    ELSE [raised |-> FALSE, records |-> existing \cup new]
\* collection.add(ids=..., documents=..., metadatas=...) of the persistent
\* client: a record whose id the collection already holds is skipped, without
\* an exception, and the record held is left as it is
CollectionAdd(existing, new) ==
    [raised |-> FALSE,
     records |-> existing \cup {r \in new : \A x \in existing : x.id # r.id}]

\* add_document_chunks called once more by some caller, for any document
\* identifier and chunk list, whatever the collection holds already
AddDocumentChunks ==
    /\ InFlightNone
    /\ \E d \in DocIds, f \in IdForms :
         \E chs \in ChunkLists(d) :
           \E o \in AddChunksOutcomes(IdStr(d, f), chs) :
             LET idstr == IdStr(d, f)
                 coll == CollectionName(idstr)
                 r == CollectionAdd(vs_records[coll], o.written)
             IN  /\ vs_created' = IF o.created THEN vs_created \cup {coll} ELSE vs_created
                 /\ vs_records' = [vs_records EXCEPT ![coll] = r.records]
                 /\ last' = [NoLast EXCEPT !.op = "add_document_chunks",
                                !.doc = d, !.coll = coll, !.filt = idstr,
                                !.chunks = chs, !.held = vs_records[coll],
                                !.code = IF o.ok /\ ~r.raised THEN 200 ELSE 500,
                                !.raw = IF ~o.ok THEN "vector_store_error"
                                        ELSE IF r.raised THEN "id_already_exists"
                                        ELSE "none"]
    /\ UNCHANGED <<documents, chunk_rows, next_doc, sessions, messages, flightVars>>
    /\ UNCHANGED <<chunkVars, searchVars>>

SpecAdd == Init /\ [][AddDocumentChunks]_vars

\* ------------------------------------------------------------------ C1
\* C1: chunk_text terminates: every loop iteration strictly increases the
\* window start (to at least start + 1 and at least end - overlap), so the loop
\* body has run at most len(text) times when the next iteration begins.
C1_Terminates ==
    [][cpc = "loop" /\ cpc' = "loop" =>
          /\ start' > start
          /\ start' >= WindowEnd(text, start, chunk_size) - overlap
          /\ iters' = iters + 1
          /\ iters' <= Len(text)
          /\ iters' <= start']_vars

\* a text with no sentence or paragraph boundary at all, chunked to its end
\* with the largest overlap, one character of progress per iteration
C1_Witness ==
    /\ cpc = "done"
    /\ Len(text) >= 3
    /\ \A k \in 1..Len(text) : text[k] = "a"
    /\ overlap = chunk_size - 1
    /\ iters = Len(text)

\* ------------------------------------------------------------------ C2
\* the embedding records of collection documents_<d> whose id is "<d>_<index>"
RecordsFor(d, index) ==
    {r \in vs_records[CollectionName(UUIDStr(d))] : r.id = <<UUIDStr(d), index>>}

\* C2: a document whose status is "processed" has, for every chunk row stored
\* for it, exactly one embedding record with id "<document_id>_<chunk_index>" in
\* the collection documents_<document_id>; an upload that ended in a failure
\* (HTTP 500) never leaves the status "processed".
C2_ProcessedIsIndexed ==
    /\ \A d \in DocIds :
         documents[d].status = "processed" =>
           \A k \in 1..Len(chunk_rows[d]) :
             Cardinality(RecordsFor(d, chunk_rows[d][k].chunk_index)) = 1
    /\ last.op = "upload" /\ last.code = 500 =>
         documents[last.doc].status = "failed"

\* an upload of two chunks that ended "processed" with both records indexed
C2_Witness ==
    /\ last.op = "upload"
    /\ last.code = 200
    /\ documents[last.doc].status = "processed"
    /\ Len(chunk_rows[last.doc]) = 2
    /\ Cardinality(vs_records[CollectionName(UUIDStr(last.doc))]) = 2

\* ------------------------------------------------------------------ C3
\* the question that finished last was document-scoped
DocumentScoped(l) == l.op = "ask" /\ l.docreq # NoId /\ ~l.use_internet /\ l.doc # 0

\* C3: an upload that fails after its chunk rows were written leaves the status
\* "failed" and the rows in place; a "failed" status never changes while the
\* document exists, and its chunk rows stay; a document-scoped question for a
\* document whose status is not "processed" is rejected (HTTP 400) without a
\* vector query, a get-all or a model request.
C3_FailedIsTerminal ==
    [][/\ \A d \in DocIds :
            documents[d].status = "failed" =>
              /\ documents'[d].status \in {"failed", "none"}
              /\ documents'[d].status = "failed" => chunk_rows'[d] = chunk_rows[d]
       /\ last'.op = "upload" /\ last'.code = 500 /\ last'.coll # NoColl =>
            /\ documents'[last'.doc].status = "failed"
            /\ chunk_rows'[last'.doc] # <<>>
       /\ DocumentScoped(last') /\ HasRow(last'.doc)
              /\ documents'[last'.doc].status # "processed" =>
            /\ last'.code = 400
            /\ last'.calls.vec_query = 0
            /\ last'.calls.vec_get = 0
            /\ last'.calls.complete = 0
            /\ last'.calls.chat = 0
            /\ last'.calls.requests = 0
            /\ vs_created' = vs_created]_vars

\* a question about a document that failed with its chunk rows written was
\* rejected
C3_Witness ==
    /\ DocumentScoped(last)
    /\ last.code = 400
    /\ documents[last.doc].status = "failed"
    /\ chunk_rows[last.doc] # <<>>

\* ------------------------------------------------------------------ C4
\* C4: whatever textual form of the identifier a request carries, the operation
\* addresses the collection documents_<str(uuid)> and the document_id metadata
\* value str(uuid) of the document the identifier parses to.
C4_SameCollection ==
    last.coll # NoColl =>
      /\ last.coll = CollectionName(UUIDStr(last.doc))
      /\ last.filt = UUIDStr(last.doc)

\* ------------------------------------------------------------------ C5
\* C5: once a document was deleted successfully and no request is in flight, no
\* chunk row and no embedding record of it remains.
C5_DeleteDestroys ==
    \A d \in DocIds :
      d < next_doc /\ ~HasRow(d) /\ InFlightNone =>
        /\ chunk_rows[d] = <<>>
        /\ \A c \in CollNames : \A r \in vs_records[c] : r.document_id # UUIDStr(d)

\* ------------------------------------------------------------------ C6
\* C6: when the similarity query returns no match, or none with a similarity
\* of at least the threshold, the answer is the fixed not-found text, the
\* sources are empty and no model request is made.
C6_NoMatchNoModel ==
    /\ last.op = "ask"
    /\ last.path = "document_answer"
    /\ ~last.retrieval.raised
    /\ \A i \in 1..Len(last.retrieval.chunks) :
         Similarity(last.retrieval.chunks[i].distance) < MinSimilarityDefault
    => /\ last.code = 200
       /\ last.answer = NotFoundAnswer
       /\ last.sources = <<>>
       /\ last.calls.complete = 0
       /\ last.calls.requests = 0

\* the query returned two matches and neither passed the threshold
C6_Witness ==
    /\ last.op = "ask"
    /\ last.path = "document_answer"
    /\ Len(last.retrieval.chunks) = 2
    /\ \A i \in 1..2 : last.retrieval.chunks[i].distance = 12
    /\ last.answer = NotFoundAnswer

\* ------------------------------------------------------------------ C7
\* source s shows what context entry e gave the model
Mirrors(path, s, e) ==
    IF path = "chat_search"
    THEN s = e.src
    ELSE /\ s.chunk_index = e.section
         /\ s.content.of = e.content.of
         /\ s.content.part = e.content.part
         /\ s.content.shown = Min(e.content.len, DisplayChars)

\* C7: on the document-answer, summarize and web-search paths the sources
\* returned correspond one-to-one and in order to the chunks or search results
\* the context given to the model was built from, each shown with at most 200
\* characters.
C7_SourcesMirrorContext ==
    /\ last.op = "ask"
    /\ last.code = 200
    /\ last.path \in {"document_answer", "summarize", "chat_search"}
    /\ last.llm = "ok"
    /\ last.inject \in {"none", "context", "snippets"}
    => /\ Len(last.sources) = Len(last.context)
       /\ \A i \in 1..Len(last.sources) :
            Mirrors(last.path, last.sources[i], last.context[i])

\* ------------------------------------------------------------------ C8
\* the attempts of the log that yielded a non-empty result list
HitAttempts == {k \in 1..Len(s_log) : s_log[k].kind = "results" /\ s_log[k].items # <<>>}

\* C8: search makes at most `retries` engine attempts, never raises, returns
\* the results of the first attempt that yields a non-empty list, in the
\* engine's order, making no attempt after it, and returns [] when no attempt
\* yields results.
C8_SearchResult ==
    /\ Len(s_log) <= s_retries
    /\ s_pc # "raised"
    /\ \A k \in HitAttempts : k = Len(s_log) /\ s_pc = "done"
    /\ s_pc = "done" =>
         IF HitAttempts = {}
         THEN s_result = <<>>
         ELSE /\ Len(s_result) = Len(s_log[Len(s_log)].items)
              /\ \A k \in 1..Len(s_result) :
                   /\ s_result[k].title = s_log[Len(s_log)].items[k].title
                   /\ s_result[k].url = s_log[Len(s_log)].items[k].href
                   /\ s_result[k].snippet = s_log[Len(s_log)].items[k].body

\* two failed attempts, then an attempt that returns two results
C8_Witness ==
    /\ s_pc = "done"
    /\ Len(s_log) = 3
    /\ s_log[1].kind = "raise"
    /\ s_log[2].kind = "results" /\ s_log[2].items = <<>>
    /\ Len(s_result) = 2
    /\ s_result[1].title = "t2"

\* ------------------------------------------------------------------ C9
\* the response of the first entry, greetings first, whose key is a substring of
\* the lower-cased trimmed question; the instructional message if there is none
RuleBasedAnswer(q) ==
    LET table == GREETINGS \o COMMON_RESPONSES
        hits == {i \in 1..Len(table) : Contains(Strip(Lower(q)), table[i].key)}
    IN  IF hits = {} THEN GetErrorResponse
        ELSE table[CHOOSE i \in hits : \A j \in hits : i <= j].response

\* the question that finished last took the general path
GeneralQuestion(l) ==
    l.op = "ask" /\ l.path # "none" /\ (l.docreq = NoId \/ l.use_internet)

\* C9: when the availability probe fails on a general question the answer is
\* the first matching rule-based fallback, greetings before canned answers, or
\* the instructional message; no search, no chat request and no error.
C9_OfflineFallback ==
    GeneralQuestion(last) /\ ~last.available =>
      /\ last.code = 200
      /\ last.answer = RuleBasedAnswer(last.question)
      /\ last.sources = <<>>
      /\ last.calls.search = 0
      /\ last.calls.chat = 0
      /\ last.calls.requests = 0

\* "Hi, how are you", which holds a greeting and a canned question, got the
\* greeting while the model service was down
C9_Witness ==
    /\ GeneralQuestion(last)
    /\ ~last.available
    /\ last.question = Q_hi_how
    /\ last.answer = "greet_hi"

\* ------------------------------------------------------------------ C10
\* C10: when the probe succeeded and the model request is refused, a general
\* question gets the rule-based fallback or the instructional message, a
\* document-answer or summarize question gets an error (HTTP 500); every model
\* call makes exactly one request.
C10_RefusedModelCall ==
    /\ last.op = "ask" =>
         last.calls.requests = last.calls.chat + last.calls.complete
    /\ last.op = "ask" /\ last.llm = "refused" =>
         IF GeneralQuestion(last)
         THEN /\ last.available
              /\ last.code = 200
              /\ last.answer = RuleBasedAnswer(last.question)
              /\ last.sources = <<>>
         ELSE /\ last.path \in {"document_answer", "summarize"}
              /\ last.code = 500
              /\ last.answer = "none"

\* a plain general question whose chat request was refused got the
\* instructional message after one request
C10_Witness ==
    /\ GeneralQuestion(last)
    /\ last.llm = "refused"
    /\ last.question = Q_plain
    /\ last.answer = GetErrorResponse
    /\ last.calls.requests = 1

\* ------------------------------------------------------------------ C11
\* C11: whatever the model, the vector store or the web search did, the
\* response of ask_question to a well-formed request is an answer or a fixed
\* message: it never carries the text of the underlying exception.
C11_NoRawErrorText ==
    last.op = "ask" /\ last.path # "none" => last.raw = "none"

\* ------------------------------------------------------------------ C12
\* what the two stores hold for the document of the last summarize request
SummaryIndexChunks == last.retrieval.chunks
SummaryRowChunks == Take(DbChunks(last.docreq), MaxSummaryChunks)
SummarySupply ==
    IF last.retrieval.raised \/ SummaryIndexChunks = <<>>
    THEN SummaryRowChunks ELSE SummaryIndexChunks

\* C12: summarize_document asks the vector index first; when that call raises
\* or returns nothing it reads the chunk rows; when both give nothing it
\* returns the fixed "nothing to summarize" answer with no sources and no
\* model call; otherwise the context holds the supplying store's chunk texts
\* in ascending chunk_index order.
C12_SummarizeFallbackOrder ==
    last.op = "ask" /\ last.path = "summarize" =>
        /\ last.calls.vec_get = 1
        /\ Len(SummaryIndexChunks) <= MaxSummaryChunks
        /\ last.calls.db_chunks =
              (IF last.retrieval.raised \/ SummaryIndexChunks = <<>> THEN 1 ELSE 0)
        /\ IF SummarySupply = <<>>
           THEN /\ last.code = 200
                /\ last.answer = NothingToSummarize
                /\ last.sources = <<>>
                /\ last.calls.complete = 0
                /\ last.calls.requests = 0
           ELSE /\ last.calls.complete = 1
                /\ Len(last.context) = Len(SummarySupply)
                /\ {[section |-> c.chunk_index, content |-> c.content] :
                        c \in {SummarySupply[i] : i \in 1..Len(SummarySupply)}}
                     = {last.context[i] : i \in 1..Len(last.context)}
                /\ \A i \in 1..(Len(last.context) - 1) :
                      last.context[i].section < last.context[i + 1].section

\* a summary built from two chunks that the vector index supplied
C12_Witness ==
    /\ last.op = "ask"
    /\ last.path = "summarize"
    /\ last.code = 200
    /\ ~last.retrieval.raised
    /\ Len(last.retrieval.chunks) = 2
    /\ Len(last.context) = 2
    /\ last.calls.db_chunks = 0

\* a summary built from the chunk rows after the vector index raised
C12_WitnessFallback ==
    /\ last.op = "ask"
    /\ last.path = "summarize"
    /\ last.code = 200
    /\ last.retrieval.raised
    /\ Len(last.context) = 2
    /\ last.calls.db_chunks = 1

\* the fixed answer when neither store holds a chunk of the document
C12_WitnessNothing ==
    /\ last.op = "ask"
    /\ last.path = "summarize"
    /\ SummarySupply = <<>>
    /\ last.answer = NothingToSummarize

\* ------------------------------------------------------------------ C13
\* the 0-based positions of the text that hold a non-whitespace character
InkPositions == {p \in 0..(Len(text) - 1) : text[p + 1] \notin Whitespace}

\* C13: with 0 <= overlap < chunk_size the chunks chunk_text returns leave no
\* gap: every non-whitespace position of the text lies in the span
\* [start_char, end_char) of some chunk.
C13_NoGap ==
    cpc = "done" /\ overlap >= 0 =>
        \A p \in InkPositions :
            \E i \in 1..Len(chunks) :
                chunks[i].start_char <= p /\ p < chunks[i].end_char

\* a finished run over a text with whitespace in it that took several windows,
\* one of which was all whitespace and produced no chunk
C13_Witness ==
    /\ cpc = "done"
    /\ overlap >= 0
    /\ Len(chunks) >= 2
    /\ iters > Len(chunks)
    /\ Cardinality(InkPositions) >= 3

\* ------------------------------------------------------------------ C14
\* a call of either chunker has returned
ChunkerDone == cpc \in {"done", "para_done"}

\* C14: the chunks of chunk_text and of chunk_by_paragraphs carry the
\* chunk_index values 0, 1, ..., n-1 in list order; a window or paragraph that
\* is empty after trimming takes no index; empty or whitespace-only text gives
\* the empty list.
C14_IndexesCountUp ==
    /\ \A i \in 1..Len(chunks) : chunks[i].chunk_index = i - 1
    /\ \A i \in 1..Len(chunks) : chunks[i].content # <<>>
    /\ cpc \in {"loop", "done"} => chunk_index = Len(chunks)
    /\ ChunkerDone /\ (\A k \in 1..Len(text) : text[k] \in Whitespace) => chunks = <<>>

\* chunk_by_paragraphs returned two chunks after skipping an empty piece
C14_Witness ==
    /\ cpc = "para_done"
    /\ Len(chunks) = 2
    /\ \E i \in 1..Len(paragraphs) : Strip(paragraphs[i]) = <<>>

\* chunk_text returned two chunks after a window that was all whitespace
C14_WitnessWindow ==
    /\ cpc = "done"
    /\ Len(chunks) = 2
    /\ iters > Len(chunks)

\* ------------------------------------------------------------------ C15
\* C15: every chunk of chunk_text has offsets inside the text,
\* 0 <= start_char < end_char <= len(text), and its content is
\* text[start_char:end_char] trimmed.
C15_OffsetsInText ==
    cpc \in {"loop", "done"} =>
        \A i \in 1..Len(chunks) :
            /\ 0 <= chunks[i].start_char
            /\ chunks[i].start_char < chunks[i].end_char
            /\ chunks[i].end_char <= Len(text)
            /\ chunks[i].content =
                  Strip(Slice(text, chunks[i].start_char, chunks[i].end_char))

\* the part of C15 the code keeps: the start is inside the text and before the
\* end, and the content is the trimmed slice (which Python clamps to the text)
C15_StartAndContent ==
    cpc \in {"loop", "done"} =>
        \A i \in 1..Len(chunks) :
            /\ 0 <= chunks[i].start_char
            /\ chunks[i].start_char < chunks[i].end_char
            /\ chunks[i].start_char < Len(text)
            /\ chunks[i].content =
                  Strip(Slice(text, chunks[i].start_char, chunks[i].end_char))

\* ------------------------------------------------------------------ C16
\* the positions of the retrieved matches whose similarity reaches the threshold
KeptPositions ==
    {i \in 1..Len(last.retrieval.chunks) :
        10 - last.retrieval.chunks[i].distance >= last.min_similarity}
\* the j-th of them in retrieval order
KeptAt(j) ==
    CHOOSE i \in KeptPositions : Cardinality({k \in KeptPositions : k < i}) = j - 1

\* C16: answer_question keeps a match exactly when 1 - distance >=
\* min_similarity, keeps the survivors in retrieval order, and reports each
\* one's similarity 1 - distance unclamped; distances 0.1, 0.5, 0.9 with
\* threshold 0.6 keep the first match only.
C16_SimilarityFilter ==
    last.op = "answer_question" =>
        /\ Len(last.context) = Cardinality(KeptPositions)
        /\ \A j \in 1..Len(last.context) :
              /\ last.context[j].section = last.retrieval.chunks[KeptAt(j)].chunk_index
              /\ last.context[j].content = last.retrieval.chunks[KeptAt(j)].content
        /\ last.code = 200 /\ last.calls.complete = 1 =>
              /\ Len(last.sources) = Cardinality(KeptPositions)
              /\ \A j \in 1..Len(last.sources) :
                    /\ last.sources[j].chunk_id = last.retrieval.chunks[KeptAt(j)].chunk_id
                    /\ last.sources[j].similarity =
                          10 - last.retrieval.chunks[KeptAt(j)].distance
        /\ KeptPositions = {} => last.answer = NotFoundAnswer /\ last.calls.complete = 0
        /\ ( /\ Len(last.retrieval.chunks) = 3
             /\ last.retrieval.chunks[1].distance = 1
             /\ last.retrieval.chunks[2].distance = 5
             /\ last.retrieval.chunks[3].distance = 9
             /\ last.min_similarity = 6 )
           => Len(last.context) = 1
              /\ last.context[1].section = last.retrieval.chunks[1].chunk_index

\* an answer under a negative threshold whose sources keep all three matches in
\* retrieval order, the last with a negative similarity
C16_Witness ==
    /\ last.op = "answer_question"
    /\ last.code = 200
    /\ last.min_similarity = -5
    /\ Len(last.retrieval.chunks) = 3
    /\ Len(last.sources) = 3
    /\ last.sources[3].similarity = -2
    /\ last.retrieval.chunks[1].chunk_index > last.retrieval.chunks[2].chunk_index

\* a match whose similarity equals the threshold is kept, the next one dropped
C16_WitnessBoundary ==
    /\ last.op = "answer_question"
    /\ last.code = 200
    /\ last.min_similarity = 5
    /\ Len(last.retrieval.chunks) = 3
    /\ Len(last.sources) = 2
    /\ last.sources[2].similarity = 5

\* the example of the claim: one of three matches survives threshold 0.6
C16_WitnessExample ==
    /\ last.op = "answer_question"
    /\ last.code = 200
    /\ last.min_similarity = 6
    /\ Len(last.retrieval.chunks) = 3
    /\ last.retrieval.chunks[2].distance = 5
    /\ Len(last.sources) = 1
    /\ last.sources[1].similarity = 9

\* ------------------------------------------------------------------ C17
\* the last add_document_chunks call wrote chunks that the collection already
\* held, record for record, and nothing around the call failed
SecondWrite ==
    /\ last.op = "add_document_chunks"
    /\ last.chunks # <<>>
    /\ EmbeddingRecords(last.filt, last.chunks) \subseteq last.held
    /\ last.raw # "vector_store_error"

\* C17: writing the same document's chunks to its collection a second time
\* succeeds and leaves the collection as the first write left it: the same
\* number of records, each id "<document_id>_<chunk_index>" once, holding the
\* content of the chunk written.
C17_SecondWriteIdempotent ==
    SecondWrite =>
        /\ last.code = 200
        /\ Cardinality(vs_records[last.coll]) = Cardinality(last.held)
        /\ \A k \in 1..Len(last.chunks) :
              LET with_id == {r \in vs_records[last.coll] :
                                 r.id = <<last.filt, last.chunks[k].chunk_index>>}
              IN  /\ Cardinality(with_id) = 1
                  /\ \A r \in with_id : r.content = last.chunks[k].content

\* a second write of two chunks that returned normally
C17_Witness ==
    /\ SecondWrite
    /\ Len(last.chunks) = 2
    /\ last.code = 200

\* ------------------------------------------------------------------ C18
\* the last request ran search_similar_chunks against a collection that held no
\* record for its filter (one that was missing, or an empty one) while the
\* store and the embedding model worked
QueriedEmpty ==
    /\ last.op = "ask"
    /\ last.path = "document_answer"
    /\ last.calls.vec_query = 1
    /\ Eligible(last.coll, last.filt) = {}
    /\ last.retrieval.failure # "store_unavailable"

\* C18: search_similar_chunks against a missing or empty collection returns
\* an empty list; the emptiness raises nothing.
C18_EmptyQueryNoError ==
    QueriedEmpty =>
        /\ ~last.retrieval.raised
        /\ last.retrieval.chunks = <<>>
        /\ last.code = 200
        /\ last.answer = NotFoundAnswer

\* a question about a processed document that has records, asked through an
\* identifier form that names a collection nothing was ever written to
C18_Witness ==
    /\ QueriedEmpty
    /\ last.coll \in vs_created
    /\ vs_records[last.coll] = {}
    /\ \E c \in CollNames : vs_records[c] # {}
    /\ ~last.retrieval.raised

\* ------------------------------------------------------------------ C19
\* the non-empty trimmed paragraphs of the text, in order
TrimmedParagraphs ==
    SelectSeq([i \in 1..Len(paragraphs) |-> Strip(paragraphs[i])],
              LAMBDA para : para # <<>>)

\* the paragraphs that the chunks from the i-th on hold, in order
RECURSIVE ChunkParagraphs(_)
ChunkParagraphs(i) ==
    IF i > Len(chunks) THEN <<>>
    ELSE Paragraphs(chunks[i].content) \o ChunkParagraphs(i + 1)

\* C19: chunk_by_paragraphs never splits a paragraph: the chunks, cut at their
\* blank lines, give back the non-empty trimmed paragraphs of the text, each
\* once and in order; a chunk of two or more paragraphs is not longer than
\* max_chunk_size, and a longer chunk is one paragraph that is itself longer.
C19_ParagraphsWhole ==
    cpc = "para_done" /\ paragraphs # <<>> =>
        /\ ChunkParagraphs(1) = TrimmedParagraphs
        /\ \A i \in 1..Len(chunks) :
              /\ Len(Paragraphs(chunks[i].content)) >= 2 =>
                    Len(chunks[i].content) <= max_chunk_size
              /\ Len(chunks[i].content) > max_chunk_size =>
                    \E k \in 1..Len(TrimmedParagraphs) :
                        /\ TrimmedParagraphs[k] = chunks[i].content
                        /\ Len(TrimmedParagraphs[k]) > max_chunk_size

\* three paragraphs packed into a chunk of two and a chunk of one
C19_Witness ==
    /\ cpc = "para_done"
    /\ Len(TrimmedParagraphs) = 3
    /\ Len(chunks) = 2
    /\ Len(Paragraphs(chunks[1].content)) = 2
    /\ Len(chunks[1].content) = max_chunk_size

\* a chunk longer than the limit: one paragraph that is longer by itself
C19_WitnessLong ==
    /\ cpc = "para_done"
    /\ Len(chunks) = 2
    /\ Len(chunks[1].content) > max_chunk_size
    /\ Len(chunks[2].content) <= max_chunk_size

\* ------------------------------------------------------------------ C20
\* the offsets just after the sentence-ending delimiters that lie in the search
\* window of the raw window [s, s + chunk_size)
DelimiterEnds(s) ==
    LET e == s + chunk_size
        search_start == Max(s, e - SearchBack)
    IN  {p + 2 : p \in {q \in search_start..(e - 2) :
                            \E i \in 1..Len(sentence_endings) :
                                Slice(text, q, q + 2) = sentence_endings[i]}}

\* C20: a chunk whose raw window ends before the end of the text, with a
\* sentence-ending delimiter in the last 200 characters of the window, ends
\* just after the delimiter nearest to the raw boundary, whatever its kind.
C20_NearestDelimiter ==
    \A i \in 1..Len(chunks) :
        LET s == chunks[i].start_char
            ends == DelimiterEnds(s)
        IN  cpc \in {"loop", "done"} /\ s + chunk_size < Len(text) /\ ends # {} =>
                chunks[i].end_char = CHOOSE p \in ends : \A q \in ends : p >= q

\* what the code does keep: such a chunk ends just after some delimiter
C20_SomeDelimiter ==
    \A i \in 1..Len(chunks) :
        LET s == chunks[i].start_char
            ends == DelimiterEnds(s)
        IN  cpc \in {"loop", "done"} /\ s + chunk_size < Len(text) /\ ends # {} =>
                chunks[i].end_char \in ends

\* ------------------------------------------------------------------ C21
\* the offsets just after the paragraph breaks that lie in the search window of
\* the raw window [s, s + chunk_size)
ParagraphEnds(s) ==
    LET e == s + chunk_size
        search_start == Max(s, e - SearchBack)
    IN  {q + 2 : q \in {p \in search_start..(e - 2) :
                            Slice(text, p, p + 2) = <<"\n", "\n">>}}

\* where C21 puts the cut of the window that starts at s
RuleCut(s) ==
    IF DelimiterEnds(s) # {} THEN DelimiterEnds(s)
    ELSE IF ParagraphEnds(s) # {}
         THEN {CHOOSE p \in ParagraphEnds(s) : \A q \in ParagraphEnds(s) : p >= q}
         ELSE {s + chunk_size}

\* C21: a paragraph break decides the cut of a window only when the search
\* window holds no sentence-ending delimiter: with a delimiter in the window
\* the cut is just after a delimiter, also when that delimiter ends exactly at
\* the raw boundary; with neither the cut is the raw boundary. (Without
\* overlap the next window starts at the cut.)
C21_ParagraphOnlyWithoutSentence ==
    [][ /\ cpc = "loop"
        /\ start < Len(text)
        /\ start + chunk_size < Len(text)
        /\ overlap = 0
        => start' \in RuleCut(start) ]_vars

\* what the code does: the paragraph break also decides when the only
\* delimiter found ends exactly at the raw boundary
CodeCut(s) ==
    LET e == s + chunk_size
        inner == {p \in DelimiterEnds(s) : p # e}
    IN  IF DelimiterEnds(s) # {} /\ ~(e \in DelimiterEnds(s) /\ ParagraphEnds(s) # {})
        THEN DelimiterEnds(s)
        ELSE IF ParagraphEnds(s) # {}
             THEN ParagraphEnds(s) \cup inner
             ELSE {e}

C21_CutOfTheCode ==
    [][ /\ cpc = "loop"
        /\ start < Len(text)
        /\ start + chunk_size < Len(text)
        /\ overlap = 0
        => start' \in CodeCut(start) ]_vars

\* ------------------------------------------------------------------ C22
\* C22: on the general path with search, extracted context that is not empty
\* is injected into the final user turn; the snippets are injected when only
\* results are there; the "search unavailable" notice only when the search gave
\* nothing; chat is then called exactly once.
C22_InjectWhatSearchGave ==
    last.op = "ask" /\ last.path = "chat_search" =>
        /\ last.found.context # <<>> =>
              last.inject = "context" /\ last.context = last.found.context
        /\ last.found.context = <<>> /\ last.found.results # <<>> =>
              last.inject = "snippets"
        /\ last.inject = "unavailable" =>
              last.found.context = <<>> /\ last.found.results = <<>>
        /\ last.calls.chat = 1
        /\ last.turns[Len(last.turns)] = Turn("user", last.question, last.inject)

\* what the code does: the second search call decides; without its results the
\* notice is injected whatever was extracted
C22_InjectOfTheCode ==
    last.op = "ask" /\ last.path = "chat_search" =>
        /\ last.inject =
              (IF last.found.context # <<>> /\ last.found.results # <<>> THEN "context"
               ELSE IF last.found.results # <<>> THEN "snippets"
               ELSE "unavailable")
        /\ last.calls.chat = 1
        /\ last.calls.search = 2
        /\ last.turns[Len(last.turns)] = Turn("user", last.question, last.inject)

\* ------------------------------------------------------------------ C23
\* the wait C23 puts after the k-th attempt (k = 1, 2, ...), 0 for none
WaitAfter(k) ==
    IF s_log[k].kind = "raise" /\ k < s_retries
    THEN IF s_log[k].err = "ratelimit" THEN 2 * k ELSE 1
    ELSE 0

\* C23: search waits 2*n seconds after its n-th attempt failed with a
\* rate-limit error and 1 second after an attempt that failed with another
\* error, before the next attempt; it does not wait after the final attempt nor
\* after an attempt that raised nothing.
C23_Backoff ==
    s_pc \in {"loop", "done"} =>
        s_sleeps = SelectSeq([k \in 1..Len(s_log) |-> WaitAfter(k)], LAMBDA w : w > 0)

\* the first attempt was rate-limited, the second gave results: one wait of 2
C23_Witness ==
    /\ s_pc = "done"
    /\ Len(s_log) = 2
    /\ s_log[1].err = "ratelimit"
    /\ s_result # <<>>
    /\ s_sleeps = <<2>>

\* three rate-limited attempts of three: waits of 2 and 4, none after the last
C23_WitnessExhausted ==
    /\ s_pc = "done"
    /\ s_retries = 3
    /\ Len(s_log) = 3
    /\ \A k \in 1..3 : s_log[k].err = "ratelimit"
    /\ s_sleeps = <<2, 4>>
    /\ s_result = <<>>

\* ------------------------------------------------------------------ C24
\* the questions of the model by what C24 says of them
WhoQuestions == {Q_who_ceo, Q_who_are}
TopicalQuestions == {Q_who_ceo, Q_news}
SummaryQuestions == {Q_sum}
DocumentPaths == {"summarize", "document_answer", "rejected"}
GeneralPaths == {"offline", "chat", "chat_search"}

C24_WitnessWho ==
    /\ last.op = "ask"
    /\ last.question = Q_who_are
    /\ ~last.use_internet
    /\ last.path = "chat_search"

\* ------------------------------------------------------------------ C25
\* C25: the context answer_question hands the model is one
\* "[Section <chunk_index>]\n<content>" block per surviving match, in the
\* order of the retrieval ranking, best match first, not in chunk_index order.
C25_ContextInRankOrder ==
    last.op = "answer_question" /\ last.calls.complete = 1 =>
        last.context =
            [j \in 1..Cardinality(KeptPositions) |->
                [section |-> last.retrieval.chunks[KeptAt(j)].chunk_index,
                 content |-> last.retrieval.chunks[KeptAt(j)].content]]

\* the model was handed chunk 2 before chunk 0: the best match is a later part
\* of the document, and a worse match was dropped
C25_Witness ==
    /\ last.op = "answer_question"
    /\ last.calls.complete = 1
    /\ Len(last.retrieval.chunks) = 3
    /\ Len(last.context) = 2
    /\ last.context[1].section = 2
    /\ last.context[2].section = 0

\* ------------------------------------------------------------------ C26
\* the turns the store held when the last request read its history
StoredAtRead ==
    IF last.code = 200 THEN SubSeq(messages, 1, Len(messages) - 1) ELSE messages
\* the turns sent between the system message and the final user turn
SentHistory == SubSeq(last.turns, 2, Len(last.turns) - 1)

\* C26: the turn list sent to chat is the system message, then at most 10 of
\* the most recent stored turns, oldest first, then the current question as
\* the final user turn; building it leaves every stored turn as it was.
C26_TurnsChronological ==
    /\ [](last.op = "ask" /\ last.calls.chat = 1 =>
            /\ last.turns[1] = SystemTurn
            /\ last.turns[Len(last.turns)].role = "user"
            /\ last.turns[Len(last.turns)].text = last.question
            /\ Len(SentHistory) = Min(10, Len(StoredAtRead))
            /\ \A i \in 1..Len(SentHistory) :
                  LET m == StoredAtRead[Len(StoredAtRead) - Len(SentHistory) + i]
                  IN  SentHistory[i].role = m.role /\ SentHistory[i].text = m.text)
    /\ [][\A i \in 1..Len(messages) :
              i <= Len(messages') /\ messages'[i] = messages[i]]_vars

\* a question asked in a session of twelve turns: ten of them were sent, the
\* oldest of those first
C26_Witness ==
    /\ last.op = "ask"
    /\ last.calls.chat = 1
    /\ Len(messages) = MaxStored + 2
    /\ Len(last.turns) = 12
    /\ last.turns[2].text = <<"m04">>
    /\ last.turns[10].text = <<"m12">>

\* ------------------------------------------------------------------ C28
\* the positions of the sent turn list that carry the current question
QuestionTurns ==
    {i \in 1..Len(last.turns) :
        last.turns[i].role = "user" /\ last.turns[i].text = last.question}

\* C28: in the turn list sent to chat the current question appears exactly
\* once, as the final user turn; no stored turn is sent twice.
C28_QuestionSentOnce ==
    last.op = "ask" /\ last.calls.chat = 1 =>
        QuestionTurns = {Len(last.turns)}

\* what the code sends: the current question twice, as the newest turn of the
\* history window and again as the final turn
C28_QuestionSentTwice ==
    last.op = "ask" /\ last.calls.chat = 1 =>
        QuestionTurns = {Len(last.turns) - 1, Len(last.turns)}

\* ------------------------------------------------------------------ C27
\* C27: a question whose document_id is no well-formed identifier is answered
\* with HTTP 400 "Invalid document ID format", and neither the vector index
\* nor the model is called.
C27_MalformedIdRejected ==
    last.op = "ask" /\ last.docreq = BadIdStr =>
        /\ last.code = 400
        /\ last.detail = "invalid_document_id_format"
        /\ last.calls = NoCalls

\* what the code does with such a question: HTTP 500 with the text of the
\* ValueError, before any probe, query or model call
C27_MalformedIdIsServerError ==
    last.op = "ask" /\ last.docreq = BadIdStr =>
        /\ last.code = 500
        /\ last.detail = "error_processing_question"
        /\ last.raw = "badly_formed_uuid_string"
        /\ last.calls = NoCalls

\* ------------------------------------------------------------------ C29
\* the last position of the text a chunk's window [start_char, end_char)
\* covers; end_char itself may lie past the end of the text
CoveredEnd(c) == Min(c.end_char, Len(text))

\* C29: with 0 <= overlap < chunk_size every chunk after the first covers at
\* least one character beyond the end of the chunk before it, and a non-blank
\* text no longer than chunk_size gives exactly one chunk.
C29_EveryChunkAddsText ==
    overlap >= 0 =>
        /\ \A i \in 2..Len(chunks) : CoveredEnd(chunks[i]) > CoveredEnd(chunks[i - 1])
        /\ (cpc = "done" /\ Strip(text) # <<>> /\ Len(text) <= chunk_size) =>
               Len(chunks) = 1

\* what the code guarantees: without overlap a text that fits in one window
\* gives one chunk; with overlap the chunks only start further and further
C29_OfTheCode ==
    /\ (cpc = "done" /\ Strip(text) # <<>> /\ Len(text) <= chunk_size /\ overlap = 0) =>
           Len(chunks) = 1
    /\ \A i \in 2..Len(chunks) : chunks[i].start_char > chunks[i - 1].start_char

\* ------------------------------------------------------------------ C30
\* a step that finishes a question with an error response
AskFailed == last'.op = "ask" /\ last'.code # 200

\* C30: a question that ends in an error leaves the sessions and the stored
\* turns as they were, so every stored user turn is followed by an assistant
\* turn of the same session.
C30_ErrorLeavesNoTrace ==
    /\ [](\A i \in 1..Len(messages) :
            messages[i].role = "user" =>
                /\ i < Len(messages)
                /\ messages[i + 1].role = "assistant"
                /\ messages[i + 1].session = messages[i].session)
    /\ [][AskFailed => sessions' = sessions /\ messages' = messages]_vars

\* what the code leaves behind after an error: the session it resolved or
\* created and, unless building or storing the user turn itself failed, the
\* question as a user turn with no answer after it
C30_ErrorKeepsTheQuestion ==
    [][AskFailed =>
        /\ sessions \subseteq sessions'
        /\ Cardinality(sessions') <= Cardinality(sessions) + 1
        /\ \/ /\ messages' = messages
              /\ last'.raw \in {"badly_formed_uuid_string", "foreign_key_violation"}
           \/ /\ Len(messages') = Len(messages) + 1
              /\ SubSeq(messages', 1, Len(messages)) = messages
              /\ messages'[Len(messages')].role = "user"
              /\ messages'[Len(messages')].text = last'.question
              /\ messages'[Len(messages')].session \in sessions']_vars

====
